---------------------------- MODULE Spec2Model ----------------------------
(***************************************************************************)
(* Constant-folding evaluator of the NIR ALU opcodes                        *)
(* (nir_constant_expressions.c).                                            *)
(*                                                                          *)
(* A lane (nir_const_value) is a 64-bit union; it is modelled as a          *)
(* sequence of 8 bytes, little endian (index 1 is the byte of u8, i8 and    *)
(* b).  Every C integer expression of an evaluator is computed on typed     *)
(* byte vectors with the C rules (integer promotion, usual arithmetic       *)
(* conversions, truncation on assignment), so that the widths 32 and 64     *)
(* keep their exact width.                                                  *)
(***************************************************************************)
EXTENDS Integers, Sequences, FiniteSets, TLC

\* one call of an evaluator: its parameters, the destination before the call
\* (dst_in), the operands each lane read (seen), how the call ended, and the
\* call before it (prev)
VARIABLES op, bit_size, num_components, src, dst, dst_in, seen, outcome, pc, prev

\* calls that run concurrently: the storage they are given (heap) and each
\* thread's parameters, locals and position (thr)
VARIABLES heap, thr

\* the compile a lowering pass runs on: its shader and its fragment shader key
VARIABLES v3d_compile

vars == <<op, bit_size, num_components, src, dst, dst_in, seen, outcome, pc, prev,
          heap, thr, v3d_compile>>

(***************************************************************************)
(* Fixed-width integers as little-endian byte vectors                       *)
(***************************************************************************)
\* the tuple of the first n values of the function f
Tup(f, n) == SubSeq(f, 1, n)

Zeros(n) == Tup([i \in 1..n |-> 0], n)

Ones(n) == Tup([i \in 1..n |-> 255], n)

\* the n-byte vector of the natural number k (k < 2^31)
FromNat(n, k) ==
    Tup([i \in 1..n |-> IF i <= 4 THEN (k \div (256 ^ (i - 1))) % 256 ELSE 0], n)

\* the natural number held by a vector whose value is below 2^31
RECURSIVE ToNat(_)
ToNat(a) == IF a = <<>> THEN 0 ELSE a[1] + 256 * ToNat(Tail(a))

\* bit k (k = 0 is the least significant) of a
Bit(a, k) == (a[(k \div 8) + 1] \div (2 ^ (k % 8))) % 2

\* the n-byte vector whose bit k is f[k]
FromBits(n, f) ==
    Tup([i \in 1..n |->
            LET k == 8 * (i - 1)
            IN  f[k] + 2 * f[k + 1] + 4 * f[k + 2] + 8 * f[k + 3] + 16 * f[k + 4]
                + 32 * f[k + 5] + 64 * f[k + 6] + 128 * f[k + 7]], n)

BvIsZero(a) == \A i \in 1..Len(a) : a[i] = 0

RECURSIVE AddCarry(_, _, _, _)
AddCarry(a, b, i, c) ==
    IF i > Len(a) THEN <<>>
    ELSE LET s == a[i] + b[i] + c
         IN  <<s % 256>> \o AddCarry(a, b, i + 1, s \div 256)

\* a + b modulo 2^(8 * Len(a))
BvAdd(a, b) == AddCarry(a, b, 1, 0)

\* a - b modulo 2^(8 * Len(a))
BvSub(a, b) == AddCarry(a, Tup([i \in 1..Len(b) |-> 255 - b[i]], Len(b)), 1, 1)

BvNeg(a) == BvSub(Zeros(Len(a)), a)

\* unsigned a < b, decided at the most significant differing byte
BvLtU(a, b) ==
    \E i \in 1..Len(a) :
        /\ a[i] < b[i]
        /\ \A j \in (i + 1)..Len(a) : a[j] = b[j]

SignBit(a) == a[Len(a)] \div 128

\* signed (two's complement) a < b
BvLtS(a, b) ==
    IF SignBit(a) # SignBit(b) THEN SignBit(a) = 1 ELSE BvLtU(a, b)

ZExt(a, n) == Tup([i \in 1..n |-> IF i <= Len(a) THEN a[i] ELSE 0], n)

SExt(a, n) == Tup([i \in 1..n |-> IF i <= Len(a) THEN a[i] ELSE 255 * SignBit(a)], n)

\* logical shifts by k >= 0 bits inside the width
BvShl(a, k) ==
    FromBits(Len(a), [i \in 0..(8 * Len(a) - 1) |-> IF i >= k THEN Bit(a, i - k) ELSE 0])

BvShrU(a, k) ==
    FromBits(Len(a), [i \in 0..(8 * Len(a) - 1) |->
                        IF i + k < 8 * Len(a) THEN Bit(a, i + k) ELSE 0])

\* a times the digit d < 256 plus the carry c, one byte longer than a
RECURSIVE MulDigit(_, _, _)
MulDigit(a, d, c) ==
    IF a = <<>> THEN <<c>>
    ELSE <<(a[1] * d + c) % 256>> \o MulDigit(Tail(a), d, (a[1] * d + c) \div 256)

\* the greatest digit d in lo..hi with b * d <= r
RECURSIVE Digit(_, _, _, _)
Digit(r, b, lo, hi) ==
    IF lo = hi THEN lo
    ELSE IF BvLtU(r, MulDigit(b, (lo + hi + 1) \div 2, 0))
         THEN Digit(r, b, lo, (lo + hi + 1) \div 2 - 1)
         ELSE Digit(r, b, (lo + hi + 1) \div 2, hi)

\* schoolbook long division in base 256 of unsigned a by b # 0, from the most
\* significant byte down; r is the running remainder (one byte longer than b)
RECURSIVE DivStep(_, _, _, _, _)
DivStep(a, b, i, q, r) ==
    IF i = 0 THEN <<q, SubSeq(r, 1, Len(a))>>
    ELSE LET r1 == <<a[i]>> \o SubSeq(r, 1, Len(a))
             d  == Digit(r1, b, 0, 255)
         IN  DivStep(a, b, i - 1, [q EXCEPT ![i] = d], BvSub(r1, MulDigit(b, d, 0)))

\* <<quotient, remainder>> of the unsigned division
BvDivModU(a, b) == DivStep(a, b, Len(a), Zeros(Len(a)), Zeros(Len(a) + 1))

\* <<quotient, remainder>> of the signed division: the quotient truncates
\* toward zero (reduced modulo 2^n), the remainder has the sign of the dividend
BvDivModS(a, b) ==
    LET qr == BvDivModU(IF SignBit(a) = 1 THEN BvNeg(a) ELSE a,
                        IF SignBit(b) = 1 THEN BvNeg(b) ELSE b)
    IN  << IF SignBit(a) # SignBit(b) THEN BvNeg(qr[1]) ELSE qr[1],
           IF SignBit(a) = 1 THEN BvNeg(qr[2]) ELSE qr[2] >>

\* the most negative and the most positive signed value of n bytes
BvMinS(n) == Tup([i \in 1..n |-> IF i = n THEN 128 ELSE 0], n)

BvMaxS(n) == Tup([i \in 1..n |-> IF i = n THEN 127 ELSE 255], n)

(***************************************************************************)
(* C integer values: w is sizeof (1, 2, 4 or 8), s tells a signed type,     *)
(* v is the object representation.                                           *)
(***************************************************************************)
CVal(w, s, v) == [w |-> w, s |-> s, v |-> v]

\* conversion to the integer type of w bytes: truncation, or extension by
\* the sign of the source type
Conv(x, w, s) ==
    CVal(w, s, IF w <= x.w THEN SubSeq(x.v, 1, w)
               ELSE IF x.s THEN SExt(x.v, w) ELSE ZExt(x.v, w))

\* the signed int constant k (0 <= k < 2^31) and its negation
CInt(k) == CVal(4, TRUE, FromNat(4, k))

\* integer promotion: every type narrower than int becomes int
Promote(x) == IF x.w < 4 THEN Conv(x, 4, TRUE) ELSE x

\* usual arithmetic conversions: the common type of two promoted operands
CommonW(x, y) == IF Promote(x).w >= Promote(y).w THEN Promote(x).w ELSE Promote(y).w

CommonS(x, y) ==
    LET px == Promote(x)
        py == Promote(y)
    IN  IF px.w = py.w THEN px.s /\ py.s
        ELSE IF px.w > py.w THEN px.s ELSE py.s

Lhs(x, y) == Conv(Promote(x), CommonW(x, y), CommonS(x, y))

Rhs(x, y) == Conv(Promote(y), CommonW(x, y), CommonS(x, y))

CBool(b) == CInt(IF b THEN 1 ELSE 0)

CTrue(x) == ~BvIsZero(x.v)

CAdd(x, y) == CVal(CommonW(x, y), CommonS(x, y), BvAdd(Lhs(x, y).v, Rhs(x, y).v))

CSub(x, y) == CVal(CommonW(x, y), CommonS(x, y), BvSub(Lhs(x, y).v, Rhs(x, y).v))

CAnd(x, y) ==
    CVal(CommonW(x, y), CommonS(x, y),
         FromBits(CommonW(x, y),
                  [k \in 0..(8 * CommonW(x, y) - 1) |->
                      Bit(Lhs(x, y).v, k) * Bit(Rhs(x, y).v, k)]))

CNeg(x) == CVal(Promote(x).w, Promote(x).s, BvNeg(Promote(x).v))

CLt(x, y) ==
    CBool(IF CommonS(x, y) THEN BvLtS(Lhs(x, y).v, Rhs(x, y).v)
          ELSE BvLtU(Lhs(x, y).v, Rhs(x, y).v))

CGe(x, y) == CBool(~CTrue(CLt(x, y)))

CEq(x, y) == CBool(Lhs(x, y).v = Rhs(x, y).v)

\* c ? x : y has the common type of x and y
CCond(c, x, y) == IF CTrue(c) THEN Lhs(x, y) ELSE Rhs(x, y)

\* the signed addition x + y does not fit its type: undefined behaviour
AddOverflows(x, y) ==
    /\ CommonS(x, y)
    /\ SignBit(Lhs(x, y).v) = SignBit(Rhs(x, y).v)
    /\ SignBit(CAdd(x, y).v) # SignBit(Lhs(x, y).v)

\* x / y and x % y for y # 0
CDiv(x, y) ==
    CVal(CommonW(x, y), CommonS(x, y),
         IF CommonS(x, y) THEN BvDivModS(Lhs(x, y).v, Rhs(x, y).v)[1]
         ELSE BvDivModU(Lhs(x, y).v, Rhs(x, y).v)[1])

CRem(x, y) ==
    CVal(CommonW(x, y), CommonS(x, y),
         IF CommonS(x, y) THEN BvDivModS(Lhs(x, y).v, Rhs(x, y).v)[2]
         ELSE BvDivModU(Lhs(x, y).v, Rhs(x, y).v)[2])

\* the count a shift instruction of 8 * w bits uses: the low bits of k
ShiftCount(k, w) == k.v[1] % (8 * w)

\* 1ull << k
ULL_SHL1(k) == CVal(8, FALSE, BvShl(FromNat(8, 1), k))

(***************************************************************************)
(* What the builds make of the undefined behaviour in the evaluators.       *)
(*   x86_O0  signed overflow wraps, idiv traps on INT_MIN / -1, a shift     *)
(*           count is taken modulo the width                                *)
(*   x86_O2  as x86_O0, but a comparison on an overflowing signed sum is    *)
(*           folded on the assumption that the sum did not overflow         *)
(*   arm64   signed overflow wraps, sdiv returns INT_MIN for INT_MIN / -1   *)
(***************************************************************************)
Builds == {"x86_O0", "x86_O2", "arm64"}

\* the builds that differ by their instruction set
Targets == {"x86_O0", "arm64"}

(***************************************************************************)
(* nir_const_value: the union of b, i8/u8, i16/u16, i32/u32/f32,           *)
(* i64/u64/f64, all at offset 0                                             *)
(***************************************************************************)
LaneBytes == 8

\* the field of w bytes
Field(l, w) == SubSeq(l, 1, w)

\* assignment to the field of w bytes; the other bytes of the union stay
SetField(l, v) == v \o SubSeq(l, Len(v) + 1, LaneBytes)

\* _src[j][_i].b converted to uint1_t or bool1_t: 0 or 1
ReadB(l) == CVal(1, FALSE, <<l[1]>>)

\* the 1-bit read without the negation
ReadInt1_plain(l) == Conv(ReadB(l), 1, TRUE)

\* -(int1_t)_src[j][_i].b : 1-bit integers use a 0/-1 convention
ReadInt1(l) == Conv(CNeg(Conv(ReadB(l), 1, TRUE)), 1, TRUE)

\* a signed source operand of the evaluator's bit size
ReadInt(l, bs) ==
    IF bs = 1 THEN ReadInt1(l) ELSE CVal(bs \div 8, TRUE, Field(l, bs \div 8))

\* an unsigned source operand of the evaluator's bit size
ReadUint(l, bs) ==
    IF bs = 1 THEN ReadB(l) ELSE CVal(bs \div 8, FALSE, Field(l, bs \div 8))

\* _dst_val[_i].b = x : conversion to bool stores 1 for every nonzero x
StoreB(l, x) == SetField(l, <<IF CTrue(x) THEN 1 ELSE 0>>)

\* the store of a result as a byte, without the truncation of 1-bit integers
StoreInt_raw(l, bs, x) == SetField(l, Conv(x, IF bs = 1 THEN 1 ELSE bs \div 8, x.s).v)

\* an integer result of the evaluator's bit size; 1-bit integers get
\* truncated: _dst_val[_i].b = dst & 1
StoreInt(l, bs, x) ==
    IF bs = 1 THEN StoreB(l, CAnd(x, CInt(1)))
    ELSE SetField(l, Conv(x, bs \div 8, x.s).v)

\* _dst_val[_i].i32 = x
StoreI32(l, x) == SetField(l, Conv(x, 4, TRUE).v)

\* the C type of a signed / unsigned local of the evaluator's bit size
\* (int1_t is int8_t, uint1_t is uint8_t)
LocalW(bs) == IF bs = 1 THEN 1 ELSE bs \div 8

IntSizes == {1, 8, 16, 32, 64}

(***************************************************************************)
(* IEEE floats as the bytes of their encoding.  A format is the number of   *)
(* bytes: 2 (binary16), 4 (float) or 8 (double).                            *)
(***************************************************************************)
FloatSizes == {16, 32, 64}

ExpBits(n) == IF n = 2 THEN 5 ELSE IF n = 4 THEN 8 ELSE 11

\* the encoding of sign s, exponent field e and a fraction whose top 8 bits
\* are mtop (the lower fraction bits are 0)
PackFloat(n, s, e, mtop) ==
    LET top  == s * 32768 + e * (2 ^ (15 - ExpBits(n)))
                + (IF n = 2 THEN mtop * 4 ELSE mtop \div (2 ^ (ExpBits(n) - 7)))
        next == IF n = 2 THEN 0 ELSE (mtop % (2 ^ (ExpBits(n) - 7))) * (2 ^ (15 - ExpBits(n)))
    IN  Tup([i \in 1..n |-> IF i = n THEN top \div 256
                            ELSE IF i = n - 1 THEN top % 256
                            ELSE IF i = n - 2 THEN next
                            ELSE 0], n)

\* the exponent field
ExpField(v) ==
    LET n == Len(v)
    IN  ((v[n] * 256 + v[n - 1]) % 32768) \div (2 ^ (15 - ExpBits(n)))

ExpMax(n) == 2 ^ ExpBits(n) - 1

Bias(n) == 2 ^ (ExpBits(n) - 1) - 1

\* the encoding without its sign bit
Magnitude(v) == [v EXCEPT ![Len(v)] = v[Len(v)] % 128]

IsNaN(v) == BvLtU(PackFloat(Len(v), 0, ExpMax(Len(v)), 0), Magnitude(v))

IsZeroF(v) == BvIsZero(Magnitude(v))

\* src0 == src1 on floats of one format: a NaN equals nothing, -0 equals +0
FEq(x, y) ==
    /\ ~IsNaN(x)
    /\ ~IsNaN(y)
    /\ (x = y \/ (IsZeroF(x) /\ IsZeroF(y)))

\* src0 < src1 on floats of one format: false when either is a NaN
FLt(x, y) ==
    /\ ~IsNaN(x)
    /\ ~IsNaN(y)
    /\ ~(IsZeroF(x) /\ IsZeroF(y))
    /\ IF SignBit(x) # SignBit(y) THEN SignBit(x) = 1
       ELSE IF SignBit(x) = 0 THEN BvLtU(Magnitude(x), Magnitude(y))
       ELSE BvLtU(Magnitude(y), Magnitude(x))

\* _mesa_half_to_float: the float with the value of the binary16 encoding h
\* (a subnormal half becomes a normal float, Inf and NaN keep their class)
HalfToFloat(h) ==
    LET s == SignBit(h)
        e == ExpField(h)
        m == (h[2] % 4) * 256 + h[1]
        p == CHOOSE q \in 0..9 : 2 ^ q <= m /\ m < 2 ^ (q + 1)
        fe == IF e = 31 THEN 255
              ELSE IF e > 0 THEN e + 112
              ELSE IF m = 0 THEN 0
              ELSE 103 + p
        fm == IF e = 0 /\ m # 0 THEN (m - 2 ^ p) * (2 ^ (23 - p)) ELSE m * 8192
    IN  << fm % 256, (fm \div 256) % 256,
           (fe % 2) * 128 + fm \div 65536, s * 128 + fe \div 2 >>

\* a float source operand: binary16 is computed as float
ReadFloat(l, bs) ==
    IF bs = 16 THEN HalfToFloat(Field(l, 2)) ELSE Field(l, bs \div 8)

\* the unbiased exponent
FExp(v) == ExpField(v) - Bias(Len(v))

\* the integer part of |v|, modulo 2^64: 1.fraction, an integer of m + 1
\* bits, shifted by the exponent
FTrunc(v) ==
    LET m    == 8 * Len(v) - 1 - ExpBits(Len(v))
        mant == IF Len(v) = 4 THEN <<v[1], v[2], (v[3] % 128) + 128, 0, 0, 0, 0, 0>>
                ELSE <<v[1], v[2], v[3], v[4], v[5], v[6], (v[7] % 16) + 16, 0>>
    IN  IF FExp(v) < 0 THEN Zeros(8)
        ELSE IF FExp(v) >= m THEN BvShl(mant, FExp(v) - m)
        ELSE BvShrU(mant, m - FExp(v))

\* int1_t dst = src0 or uint1_t dst = src0 for a float src0: the 32-bit
\* register the build's conversion instruction leaves.  A value the
\* destination type cannot hold is undefined behaviour: x86 converts to int32
\* (cvttss2si, cvttsd2si) and yields 0x80000000 when that fails; arm64
\* saturates (fcvtzs, fcvtzu) and yields 0 for a NaN.
FloatToReg(v, signed, b) ==
    LET \* v truncated toward zero is an int32_t
        FitsI32(x) ==
            /\ ExpField(x) # ExpMax(Len(x))
            /\ \/ FExp(x) < 31
               \/ SignBit(x) = 1 /\ FExp(x) = 31 /\ SubSeq(FTrunc(x), 1, 4) = BvMinS(4)
        mag == SubSeq(FTrunc(v), 1, 4)
        val == IF SignBit(v) = 1 THEN BvNeg(mag) ELSE mag
    IN  IF b = "arm64"
        THEN IF IsNaN(v) THEN Zeros(4)
             ELSE IF signed
                  THEN IF FitsI32(v) THEN val
                       ELSE IF SignBit(v) = 1 THEN BvMinS(4) ELSE BvMaxS(4)
                  ELSE IF SignBit(v) = 1 THEN Zeros(4)
                       ELSE IF ExpField(v) # ExpMax(Len(v)) /\ FExp(v) < 32 THEN mag
                       ELSE Ones(4)
        ELSE IF FitsI32(v) THEN val ELSE BvMinS(4)

(***************************************************************************)
(* Float arithmetic (round to nearest, ties to even).  A finite float is    *)
(* (-1)^s * m * 2^e with m an integer held as a byte vector.                *)
(***************************************************************************)
\* the number of fraction bits of the format of n bytes
FracBits(n) == 8 * n - 1 - ExpBits(n)

\* the number of significant bits of a (0 for a = 0)
BitLen(a) ==
    IF BvIsZero(a) THEN 0
    ELSE LET i == CHOOSE j \in 1..Len(a) : a[j] # 0 /\ \A k \in (j + 1)..Len(a) : a[k] = 0
             b == CHOOSE q \in 1..8 : 2 ^ (q - 1) <= a[i] /\ a[i] < 2 ^ q
         IN  8 * (i - 1) + b

\* the product of a and b as a vector of Len(a) + Len(b) bytes
RECURSIVE BvMul(_, _)
BvMul(a, b) ==
    IF b = <<>> THEN Zeros(Len(a))
    ELSE LET low  == MulDigit(a, b[1], 0)
             high == BvMul(a, Tail(b))
         IN  <<low[1]>> \o BvAdd(high, ZExt(Tail(low), Len(high)))

\* sign, significand (8 bytes), exponent of the unit of the significand
FDecode(v) ==
    LET n == Len(v)
        f == FracBits(n)
    IN  [s |-> SignBit(v),
         m |-> FromBits(8, [k \in 0..63 |->
                               IF k < f THEN Bit(v, k)
                               ELSE IF k = f /\ ExpField(v) > 0 THEN 1 ELSE 0]),
         e |-> (IF ExpField(v) = 0 THEN 1 ELSE ExpField(v)) - Bias(n) - f]

IsInf(v) == Magnitude(v) = PackFloat(Len(v), 0, ExpMax(Len(v)), 0)

FInf(n, s) == PackFloat(n, s, ExpMax(n), 0)

\* the quiet NaN an invalid operation yields
FNaN(n) == PackFloat(n, 0, ExpMax(n), 128)

\* the encoding in the format of n bytes of (-1)^s * M * 2^E, for M of at
\* most FracBits(n) + 2 bits and E not below the exponent of the least
\* subnormal
FEncode(n, s, M, E) ==
    LET f    == FracBits(n)
        L    == BitLen(M)
        t    == E + L - 1
        ef   == IF t < 1 - Bias(n) THEN 0 ELSE t + Bias(n)
        frac == IF ef = 0 THEN BvShl(M, E - (1 - Bias(n) - f))
                ELSE IF L > f + 1 THEN BvShrU(M, L - f - 1)
                ELSE BvShl(M, f + 1 - L)
    IN  IF L = 0 THEN PackFloat(n, s, 0, 0)
        ELSE IF ef >= ExpMax(n) THEN FInf(n, s)
        ELSE FromBits(n, [k \in 0..(8 * n - 1) |->
                             IF k < f THEN Bit(frac, k)
                             ELSE IF k < 8 * n - 1 THEN (ef \div (2 ^ (k - f))) % 2
                             ELSE s])

\* the float of n bytes nearest to (-1)^s * P * 2^e, ties to the even
\* significand
RoundTo(n, s, P, e) ==
    LET f     == FracBits(n)
        emin  == 1 - Bias(n) - f
        L     == BitLen(P)
        sh    == IF L - (f + 1) >= emin - e THEN L - (f + 1) ELSE emin - e
        bits  == 8 * Len(P)
        low   == IF Len(P) < 8 THEN Len(P) ELSE 8
        q     == IF sh >= bits THEN Zeros(8) ELSE ZExt(SubSeq(BvShrU(P, sh), 1, low), 8)
        half  == IF sh - 1 < bits THEN Bit(P, sh - 1) ELSE 0
        rest  == \E k \in 0..(sh - 2) : k < bits /\ Bit(P, k) = 1
        up    == half = 1 /\ (rest \/ q[1] % 2 = 1)
    IN  IF sh <= 0 THEN FEncode(n, s, ZExt(SubSeq(P, 1, low), 8), e)
        ELSE FEncode(n, s, IF up THEN BvAdd(q, FromNat(8, 1)) ELSE q, e + sh)

\* x * y in the format of the operands
FMul(x, y) ==
    LET n  == Len(x)
        dx == FDecode(x)
        dy == FDecode(y)
        s  == (dx.s + dy.s) % 2
    IN  IF IsNaN(x) \/ IsNaN(y) THEN FNaN(n)
        ELSE IF IsInf(x) \/ IsInf(y)
             THEN IF IsZeroF(x) \/ IsZeroF(y) THEN FNaN(n) ELSE FInf(n, s)
        ELSE RoundTo(n, s, BvMul(SubSeq(dx.m, 1, n), SubSeq(dy.m, 1, n)), dx.e + dy.e)

\* x + y in the format of the operands; the significands are aligned exactly
\* up to 72 bits apart, a smaller addend farther away only decides the rounding
FAdd(x, y) ==
    LET n   == Len(x)
        dx  == FDecode(x)
        dy  == FDecode(y)
        far(a, b) == a.e - b.e > 72 /\ ~BvIsZero(a.m) /\ ~BvIsZero(b.m)
        ax  == IF far(dy, dx) THEN [dx EXCEPT !.m = FromNat(8, 1), !.e = dy.e - 72] ELSE dx
        ay  == IF far(dx, dy) THEN [dy EXCEPT !.m = FromNat(8, 1), !.e = dx.e - 72] ELSE dy
        e0  == IF BvIsZero(ax.m) THEN ay.e
               ELSE IF BvIsZero(ay.m) THEN ax.e
               ELSE IF ax.e <= ay.e THEN ax.e ELSE ay.e
        A   == IF BvIsZero(ax.m) THEN Zeros(20) ELSE BvShl(ZExt(ax.m, 20), ax.e - e0)
        B   == IF BvIsZero(ay.m) THEN Zeros(20) ELSE BvShl(ZExt(ay.m, 20), ay.e - e0)
    IN  IF IsNaN(x) \/ IsNaN(y) THEN FNaN(n)
        ELSE IF IsInf(x) THEN (IF IsInf(y) /\ dx.s # dy.s THEN FNaN(n) ELSE x)
        ELSE IF IsInf(y) THEN y
        ELSE IF dx.s = dy.s THEN RoundTo(n, dx.s, BvAdd(A, B), e0)
        ELSE IF A = B THEN PackFloat(n, 0, 0, 0)
        ELSE IF BvLtU(B, A) THEN RoundTo(n, dx.s, BvSub(A, B), e0)
        ELSE RoundTo(n, dy.s, BvSub(B, A), e0)

\* x / y in the format of the operands, rounded from a quotient of 16n - 8
\* extra bits and a bit that tells a nonzero remainder
FDiv(x, y) ==
    LET n  == Len(x)
        dx == FDecode(x)
        dy == FDecode(y)
        s  == (dx.s + dy.s) % 2
        qr == BvDivModU(BvShl(ZExt(SubSeq(dx.m, 1, n), 3 * n - 1), 16 * n - 8),
                        ZExt(SubSeq(dy.m, 1, n), 3 * n - 1))
        P  == BvAdd(BvShl(ZExt(qr[1], 3 * n), 1),
                    FromNat(3 * n, IF BvIsZero(qr[2]) THEN 0 ELSE 1))
    IN  IF IsNaN(x) \/ IsNaN(y) THEN FNaN(n)
        ELSE IF IsInf(x) THEN (IF IsInf(y) THEN FNaN(n) ELSE FInf(n, s))
        ELSE IF IsInf(y) THEN PackFloat(n, s, 0, 0)
        ELSE IF IsZeroF(y) THEN (IF IsZeroF(x) THEN FNaN(n) ELSE FInf(n, s))
        ELSE IF IsZeroF(x) THEN PackFloat(n, s, 0, 0)
        ELSE RoundTo(n, s, P, dx.e - dy.e - (16 * n - 8) - 1)

\* _mesa_roundevenf: x rounded to an integral value, ties to even
FRoundEven(x) ==
    LET n  == Len(x)
        d  == FDecode(x)
        sh == 0 - d.e
        q  == IF sh >= 64 THEN Zeros(8) ELSE BvShrU(d.m, sh)
        half == IF sh - 1 < 64 THEN Bit(d.m, sh - 1) ELSE 0
        rest == \E k \in 0..(sh - 2) : k < 64 /\ Bit(d.m, k) = 1
        up   == half = 1 /\ (rest \/ q[1] % 2 = 1)
    IN  IF ExpField(x) = ExpMax(n) \/ d.e >= 0 THEN x
        ELSE FEncode(n, d.s, IF up THEN BvAdd(q, FromNat(8, 1)) ELSE q, 0)

\* _mesa_float_to_half: the binary16 nearest to the float x; a NaN stays a NaN
FloatToHalf(x) ==
    IF IsNaN(x) THEN PackFloat(2, SignBit(x), 31, 128)
    ELSE IF IsInf(x) THEN FInf(2, SignBit(x))
    ELSE RoundTo(2, SignBit(x), FDecode(x).m, FDecode(x).e)

\* CLAMP(X, MIN, MAX): ((X) < (MIN) ? (MIN) : ((X) > (MAX) ? (MAX) : (X)))
CLAMP(x, lo, hi) == IF FLt(x, lo) THEN lo ELSE IF FLt(hi, x) THEN hi ELSE x

(***************************************************************************)
(* One evaluator call.  Each iteration of the lane loop yields the operands *)
(* read (ops), the lane as stored (lane) and whether its computation traps. *)
(* A trap ends the process with the earlier lanes written.                  *)
(***************************************************************************)

(***************************************************************************)
(* The body of a lane loop yields the operands read (ops), the lane as      *)
(* stored (lane) and whether the lane's computation traps.                  *)
(***************************************************************************)
Lanes == 1..4

LaneOut(ops, lane) == [ops |-> ops, lane |-> lane, trap |-> FALSE]

LaneTrap(ops, lane) == [ops |-> ops, lane |-> lane, trap |-> TRUE]

\* the builds of an evaluator without undefined behaviour do not differ
AnyBuild == {"x86_O0"}

\* unreachable(str): a fatal, immediate abort of the process with the message
\* str; nothing is stored after it
unreachable(str) == "fatal: " \o str

\* an evaluator that switches on bit_size over the set sizes; body[b] is
\* what the iterations of its loop do as compiled by build b:
\*    switch (bit_size) {
\*    case N: for (unsigned _i = 0; _i < num_components; _i++) { ... } break;
\*    default: unreachable("unknown bit width");
\*    }
Evaluate(name, sizes, builds, body) ==
    /\ pc = "call"
    /\ pc' = "done"
    /\ op' = name
    /\ UNCHANGED <<bit_size, num_components, src, dst_in, prev, heap, thr, v3d_compile>>
    /\ IF bit_size \in sizes
       THEN \E b \in builds : \E r \in {body[b]} :
               LET traps == {i \in 1..Len(r) : r[i].trap}
                   done(i) == i <= Len(r) /\ \A t \in traps : i < t
               IN  /\ dst' = Tup([i \in Lanes |->
                                     IF done(i) THEN r[i].lane ELSE dst[i]], 4)
                   /\ seen' = Tup([i \in Lanes |->
                                      IF done(i) \/ i \in traps THEN r[i].ops
                                      ELSE <<>>], 4)
                   /\ outcome' = IF traps = {} THEN "ok" ELSE "SIGFPE"
       ELSE /\ dst' = dst
            /\ seen' = Tup([i \in Lanes |-> <<>>], 4)
            /\ outcome' = unreachable("unknown bit width")

(***************************************************************************)
(* The evaluators                                                           *)
(***************************************************************************)

(***************************************************************************)
(* Evaluators: the loop bodies                                                               *)
(***************************************************************************)
\* iadd with the sum kept in the promoted int and clamped to the width
iadd_lane_clamped(i, b) ==
    LET src0 == ReadInt(src[1][i], bit_size)
        src1 == ReadInt(src[2][i], bit_size)
        w    == LocalW(bit_size)
        sum  == CAdd(Conv(src0, 8, TRUE), Conv(src1, 8, TRUE))
        d    == IF BvLtS(SExt(BvMaxS(w), 8), sum.v) THEN CVal(w, TRUE, BvMaxS(w))
                ELSE IF BvLtS(sum.v, SExt(BvMinS(w), 8)) THEN CVal(w, TRUE, BvMinS(w))
                ELSE Conv(sum, w, TRUE)
    IN  LaneOut(<<src0, src1>>, StoreInt(dst[i], bit_size, d))

\* the addition with the second operand taken from lane 0
iadd_lane_crossed(i, b) ==
    LET src0 == ReadInt(src[1][i], bit_size)
        src1 == ReadInt(src[2][1], bit_size)
        d    == Conv(CAdd(src0, src1), LocalW(bit_size), TRUE)
    IN  LaneOut(<<src0, src1>>, StoreInt(dst[i], bit_size, d))

\* the addition with the second operand kept from the call before, if any
iadd_lane_retained(i, b) ==
    LET src0 == ReadInt(src[1][i], bit_size)
        src1 == ReadInt(IF prev.op = "none" THEN src[2][i] ELSE prev.src[2][i], bit_size)
        d    == Conv(CAdd(src0, src1), LocalW(bit_size), TRUE)
    IN  LaneOut(<<src0, src1>>, StoreInt(dst[i], bit_size, d))

\* int dst = src0 + src1 (signed overflow at int and int64_t wraps in every
\* build: the sum is only stored)
iadd_lane(i, b) ==
    LET src0 == ReadInt(src[1][i], bit_size)
        src1 == ReadInt(src[2][i], bit_size)
        d    == Conv(CAdd(src0, src1), LocalW(bit_size), TRUE)
    IN  LaneOut(<<src0, src1>>, StoreInt(dst[i], bit_size, d))

\* iadd with a default case that stores zero lanes and returns
evaluate_iadd_default_stores ==
    Evaluate("iadd", {bit_size}, AnyBuild,
             [b \in AnyBuild |->
                 Tup([i \in 1..num_components |->
                         IF bit_size \in IntSizes THEN iadd_lane(i, b)
                         ELSE LaneOut(<<>>, Zeros(LaneBytes))], num_components)])

evaluate_iadd ==
    Evaluate("iadd", IntSizes, AnyBuild,
             [b \in AnyBuild |->
                 Tup([i \in 1..num_components |-> iadd_lane(i, b)], num_components)])

\* (src0 + src1) < src0 ? MAX_UINT_FOR_SIZE(sizeof(src0) * 8) : (src0 + src1)
evaluate_uadd_sat ==
    LET \* #define MAX_UINT_FOR_SIZE(bits) (UINT64_MAX >> (64 - (bits)))
        MAX_UINT_FOR_SIZE(bits) == CVal(8, FALSE, BvShrU(Ones(8), 64 - bits))
        uadd_sat_lane(i, b) ==
            LET src0 == ReadUint(src[1][i], bit_size)
                src1 == ReadUint(src[2][i], bit_size)
                d    == Conv(CCond(CLt(CAdd(src0, src1), src0),
                                   MAX_UINT_FOR_SIZE(src0.w * 8),
                                   CAdd(src0, src1)),
                             LocalW(bit_size), FALSE)
            IN  LaneOut(<<src0, src1>>, StoreInt(dst[i], bit_size, d))
    IN  Evaluate("uadd_sat", IntSizes, AnyBuild,
                 [b \in AnyBuild |->
                     Tup([i \in 1..num_components |-> uadd_sat_lane(i, b)], num_components)])

\* src1 > 0 ?
\*    (src0 + src1 < src0 ? (1ull << (bit_size - 1)) - 1 : src0 + src1) :
\*    (src0 < src0 + src1 ? (1ull << (bit_size - 1))     : src0 + src1)
\* (SumLt, LtSum: a comparison whose operand is a signed sum that overflowed is
\* computed on the wrapped sum, or folded to what it is for the exact sum)
evaluate_iadd_sat ==
    LET SumLt(x, y, z, b) ==
            IF AddOverflows(x, y) /\ b = "x86_O2" THEN CLt(y, CInt(0))
            ELSE CLt(CAdd(x, y), z)
        LtSum(z, x, y, b) ==
            IF AddOverflows(x, y) /\ b = "x86_O2" THEN CLt(CInt(0), y)
            ELSE CLt(z, CAdd(x, y))
        iadd_sat_lane(i, b) ==
            LET src0 == ReadInt(src[1][i], bit_size)
                src1 == ReadInt(src[2][i], bit_size)
                pos  == CCond(SumLt(src0, src1, src0, b),
                              CSub(ULL_SHL1(bit_size - 1), CInt(1)),
                              CAdd(src0, src1))
                neg  == CCond(LtSum(src0, src0, src1, b),
                              ULL_SHL1(bit_size - 1),
                              CAdd(src0, src1))
                d    == Conv(CCond(CLt(CInt(0), src1), pos, neg), LocalW(bit_size), TRUE)
            IN  LaneOut(<<src0, src1>>, StoreInt(dst[i], bit_size, d))
    IN  Evaluate("iadd_sat", IntSizes, Builds,
                 [b \in Builds |->
                     Tup([i \in 1..num_components |-> iadd_sat_lane(i, b)], num_components)])

\* the four lanes of source j read as signed integers of the bit size:
\* const struct intN_vec srcj = { _src[j][0], ..., _src[j][3] }
ReadIntVec(j, bs) == Tup([k \in Lanes |-> ReadInt(src[j][k], bs)], 4)

\* the reduction with || in place of &&
all_iequal4_any(src0, src1) ==
    CBool(\E k \in Lanes : CTrue(CEq(src0[k], src1[k])))

\* (src0.x == src1.x) && (src0.y == src1.y) && (src0.z == src1.z) && (src0.w == src1.w)
all_iequal4(src0, src1) ==
    CBool(\A k \in Lanes : CTrue(CEq(src0[k], src1[k])))

\* struct bool1_vec dst; dst.x = ...; _dst_val[0].b = -(int)dst.x
\* the reductions store to _dst_val[0] only
evaluate_ball_iequal4 ==
    LET ball_iequal4_lane(i, b) ==
            LET src0 == ReadIntVec(1, bit_size)
                src1 == ReadIntVec(2, bit_size)
                d    == all_iequal4(src0, src1)
            IN  LaneOut(<<src0, src1>>, StoreB(dst[i], CNeg(d)))
    IN  Evaluate("ball_iequal4", IntSizes, AnyBuild,
                 [b \in AnyBuild |->
                     Tup([i \in 1..1 |-> ball_iequal4_lane(i, b)], 1)])

\* struct bool32_vec dst; dst.x = ...; _dst_val[0].i32 = -(int)dst.x
evaluate_b32all_iequal4 ==
    LET b32all_iequal4_lane(i, b) ==
            LET src0 == ReadIntVec(1, bit_size)
                src1 == ReadIntVec(2, bit_size)
                d    == all_iequal4(src0, src1)
            IN  LaneOut(<<src0, src1>>, StoreI32(dst[i], CNeg(d)))
    IN  Evaluate("b32all_iequal4", IntSizes, AnyBuild,
                 [b \in AnyBuild |->
                     Tup([i \in 1..1 |-> b32all_iequal4_lane(i, b)], 1)])

\* the reductions to a boolean ball_fequalN, ball_iequalN, bany_fnequalN,
\* bany_inequalN and their b32 forms b32all_..., b32any_... for N = 2, 3, 4
\* (ball_iequal4 and b32all_iequal4 are the two actions above)
BoolReduceOps ==
    {<<pre, fam, n>> \in {"b", "b32"}
                         \X {"all_fequal", "all_iequal", "any_fnequal", "any_inequal"}
                         \X {2, 3, 4} :
        ~(fam = "all_iequal" /\ n = 4)}

\* ball_fequal3, for one:
\*    const struct float32_vec src0 = { _src[0][0].f32, _src[0][1].f32, _src[0][2].f32, 0 };
\*    dst.x = dst.y = dst.z = dst.w =
\*       ((src0.x == src1.x) && (src0.y == src1.y) && (src0.z == src1.z));
\*    _dst_val[0].b = -(int)dst.x;          (b32: _dst_val[0].i32 = -(int)dst.x)
\* the any forms join (src0.x != src1.x) with ||
evaluate_bool_reduce(pre, fam, n) ==
    LET isf  == fam \in {"all_fequal", "any_fnequal"}
        src0 == Tup([k \in 1..n |-> IF isf THEN ReadFloat(src[1][k], bit_size)
                                    ELSE ReadInt(src[1][k], bit_size)], n)
        src1 == Tup([k \in 1..n |-> IF isf THEN ReadFloat(src[2][k], bit_size)
                                    ELSE ReadInt(src[2][k], bit_size)], n)
        eq(k) == IF isf THEN FEq(src0[k], src1[k]) ELSE CTrue(CEq(src0[k], src1[k]))
        d    == CBool(IF fam \in {"all_fequal", "all_iequal"}
                      THEN \A k \in 1..n : eq(k)
                      ELSE \E k \in 1..n : ~eq(k))
    IN  Evaluate(pre \o fam \o <<"1", "2", "3", "4">>[n],
                 IF isf THEN FloatSizes ELSE IntSizes, AnyBuild,
                 [b \in AnyBuild |->
                     <<LaneOut(<<src0, src1>>,
                               IF pre = "b32" THEN StoreI32(dst[1], CNeg(d))
                               ELSE StoreB(dst[1], CNeg(d)))>>])

\* fall_equalN and fany_nequalN (N = 2, 3, 4) read float32 at every bit_size:
\*    dst.x = dst.y = dst.z = dst.w =
\*       ((src0.x == src1.x) && (src0.y == src1.y)) ? 1.0f : 0.0f;
\*    _dst_val[0].f32 = dst.x;
\* (the evaluators have no switch)
evaluate_float_reduce(fam, n) ==
    LET src0 == Tup([k \in 1..n |-> Field(src[1][k], 4)], n)
        src1 == Tup([k \in 1..n |-> Field(src[2][k], 4)], n)
        d    == IF fam = "fall_equal" THEN \A k \in 1..n : FEq(src0[k], src1[k])
                ELSE \E k \in 1..n : ~FEq(src0[k], src1[k])
    IN  Evaluate(fam \o <<"1", "2", "3", "4">>[n], {bit_size}, AnyBuild,
                 [b \in AnyBuild |->
                     <<LaneOut(<<src0, src1>>,
                               SetField(dst[1], IF d THEN PackFloat(4, 0, 127, 0)
                                                ELSE PackFloat(4, 0, 0, 0)))>>])

\* a dot product stored to every lane
dot_lanes_all(replicated) == 4

\* a dot product stored to lane 0
dot_lanes_first(replicated) == 1

\* the lanes a dot product is stored to: _dst_val[0] alone, or _dst_val[0],
\* [1], [2] and [3] by the replicated forms
dot_lanes(replicated) == IF replicated THEN 4 ELSE 1

\* the dot products fdot2, fdot3, fdot4, fdph and fdot_replicated2,
\* fdot_replicated3, fdot_replicated4, fdph_replicated
\* (src0.x * src1.x) + (src0.y * src1.y) + ... up to component k, added from
\* the left
RECURSIVE dot_sum(_, _, _)
dot_sum(src0, src1, k) ==
    IF k = 1 THEN FMul(src0[1], src1[1])
    ELSE FAdd(dot_sum(src0, src1, k - 1), FMul(src0[k], src1[k]))

\* fdot3, for one, at case 32 (case 16 reads _mesa_half_to_float(.u16) into
\* floats and stores _mesa_float_to_half(dst.x), case 64 uses doubles):
\*    dst.x = dst.y = dst.z = dst.w =
\*       ((src0.x * src1.x) + (src0.y * src1.y) + (src0.z * src1.z));
\*    _dst_val[0].f32 = dst.x;
\* fdph: src0.x * src1.x + src0.y * src1.y + src0.z * src1.z + src1.w
\* the replicated forms also store dst.y, dst.z and dst.w to _dst_val[1..3]
evaluate_dot(name, replicated) ==
    LET n    == CASE name = "fdot2" -> 2 [] name = "fdot3" -> 3
                  [] name = "fdot4" -> 4 [] name = "fdph" -> 3
        src0 == Tup([k \in 1..n |-> ReadFloat(src[1][k], bit_size)], n)
        src1 == Tup([k \in Lanes |-> ReadFloat(src[2][k], bit_size)], 4)
        d    == IF name = "fdph" THEN FAdd(dot_sum(src0, src1, 3), src1[4])
                ELSE dot_sum(src0, src1, n)
        st   == IF bit_size = 16 THEN FloatToHalf(d) ELSE d
    IN  Evaluate(IF ~replicated THEN name
                 ELSE IF name = "fdph" THEN "fdph_replicated"
                 ELSE "fdot_replicated" \o <<"1", "2", "3", "4">>[n],
                 FloatSizes, AnyBuild,
                 [b \in AnyBuild |->
                     Tup([i \in 1..dot_lanes(replicated) |->
                             LaneOut(<<src0, src1>>, SetField(dst[i], st))],
                         dot_lanes(replicated))])

\* the store of the comparison result without the negation
StoreBoolPlain(l, is32, d) ==
    IF is32 THEN StoreI32(l, d) ELSE StoreB(l, d)

\* bool1_t dst = ...; _dst_val[_i].b = -(int)dst, or
\* bool32_t dst = ...; _dst_val[_i].i32 = -(int)dst
StoreBool(l, is32, d) ==
    IF is32 THEN StoreI32(l, CNeg(d)) ELSE StoreB(l, CNeg(d))

\* the comparisons ieq, ine, ilt, ige, ult, uge, feq, fne, flt, fge and their
\* 32 variants: the opcode is named kind, rel and "32" for a 32 variant
CompareOps ==
    {<<kind, rel, is32>> \in {"i", "u", "f"} \X {"eq", "ne", "lt", "ge"} \X BOOLEAN :
        kind = "u" => rel \in {"lt", "ge"}}

evaluate_compare(kind, rel, is32) ==
    LET \* the lane of a comparison: kind "i" reads signed (ieq, ine, ilt, ige), "u"
        \* unsigned (ult, uge) and "f" float operands (feq, fne, flt, fge); rel is the
        \* C operator ==, !=, < or >=; is32 tells the 32 variants
        cmp_lane(i) ==
            LET src0 == IF kind = "i" THEN ReadInt(src[1][i], bit_size)
                        ELSE IF kind = "u" THEN ReadUint(src[1][i], bit_size)
                        ELSE ReadFloat(src[1][i], bit_size)
                src1 == IF kind = "i" THEN ReadInt(src[2][i], bit_size)
                        ELSE IF kind = "u" THEN ReadUint(src[2][i], bit_size)
                        ELSE ReadFloat(src[2][i], bit_size)
                eq   == IF kind = "f" THEN FEq(src0, src1) ELSE CTrue(CEq(src0, src1))
                lt   == IF kind = "f" THEN FLt(src0, src1) ELSE CTrue(CLt(src0, src1))
                ge   == IF kind = "f" THEN ~IsNaN(src0) /\ ~IsNaN(src1) /\ ~FLt(src0, src1)
                        ELSE CTrue(CGe(src0, src1))
                d    == CBool(CASE rel = "eq" -> eq
                                [] rel = "ne" -> ~eq
                                [] rel = "lt" -> lt
                                [] rel = "ge" -> ge)
            IN  LaneOut(<<src0, src1>>, StoreBool(dst[i], is32, d))
    IN  Evaluate(kind \o rel \o (IF is32 THEN "32" ELSE ""),
                 IF kind = "f" THEN FloatSizes ELSE IntSizes, AnyBuild,
                 [b \in AnyBuild |->
                     Tup([i \in 1..num_components |-> cmp_lane(i)],
                         num_components)])

\* b2i1: const bool1_t src0 = _src[0][_i].b, or const bool32_t src0 =
\* _src[0][_i].i32 (nonzero is true);  int1_t dst = src0
evaluate_b2i1 ==
    LET b2i1_lane(i, b) ==
            LET src0 == IF bit_size = 1 THEN ReadB(src[1][i])
                        ELSE CBool(~BvIsZero(Field(src[1][i], 4)))
                d    == Conv(src0, 1, TRUE)
            IN  LaneOut(<<src0>>, StoreInt(dst[i], 1, d))
    IN  Evaluate("b2i1", {1, 32}, AnyBuild,
                 [b \in AnyBuild |->
                     Tup([i \in 1..num_components |-> b2i1_lane(i, b)], num_components)])

\* i2i1: int1_t dst = src0
evaluate_i2i1 ==
    LET i2i1_lane(i, b) ==
            LET src0 == ReadInt(src[1][i], bit_size)
                d    == Conv(src0, 1, TRUE)
            IN  LaneOut(<<src0>>, StoreInt(dst[i], 1, d))
    IN  Evaluate("i2i1", IntSizes, AnyBuild,
                 [b \in AnyBuild |->
                     Tup([i \in 1..num_components |-> i2i1_lane(i, b)], num_components)])

\* u2u1: uint1_t dst = src0
evaluate_u2u1 ==
    LET u2u1_lane(i, b) ==
            LET src0 == ReadUint(src[1][i], bit_size)
                d    == Conv(src0, 1, FALSE)
            IN  LaneOut(<<src0>>, StoreInt(dst[i], 1, d))
    IN  Evaluate("u2u1", IntSizes, AnyBuild,
                 [b \in AnyBuild |->
                     Tup([i \in 1..num_components |-> u2u1_lane(i, b)], num_components)])

\* f2i1: int1_t dst = src0
evaluate_f2i1 ==
    LET f2i1_lane(i, b) ==
            LET src0 == ReadFloat(src[1][i], bit_size)
                d    == Conv(CVal(4, TRUE, FloatToReg(src0, TRUE, b)), 1, TRUE)
            IN  LaneOut(<<src0>>, StoreInt(dst[i], 1, d))
    IN  Evaluate("f2i1", FloatSizes, Targets,
                 [b \in Targets |->
                     Tup([i \in 1..num_components |-> f2i1_lane(i, b)], num_components)])

\* f2u1: uint1_t dst = src0
evaluate_f2u1 ==
    LET f2u1_lane(i, b) ==
            LET src0 == ReadFloat(src[1][i], bit_size)
                d    == Conv(CVal(4, FALSE, FloatToReg(src0, FALSE, b)), 1, FALSE)
            IN  LaneOut(<<src0>>, StoreInt(dst[i], 1, d))
    IN  Evaluate("f2u1", FloatSizes, Targets,
                 [b \in Targets |->
                     Tup([i \in 1..num_components |-> f2u1_lane(i, b)], num_components)])

\* iand: dst = src0 & src1
evaluate_iand ==
    LET iand_lane(i, b) ==
            LET src0 == ReadUint(src[1][i], bit_size)
                src1 == ReadUint(src[2][i], bit_size)
                d    == Conv(CAnd(src0, src1), LocalW(bit_size), FALSE)
            IN  LaneOut(<<src0, src1>>, StoreInt(dst[i], bit_size, d))
    IN  Evaluate("iand", IntSizes, AnyBuild,
                 [b \in AnyBuild |->
                     Tup([i \in 1..num_components |-> iand_lane(i, b)], num_components)])

\* ishl: dst = src0 << (src1 & (sizeof(src0) * 8 - 1)), src1 a uint32_t; the
\* promoted src0 shifts as its bit pattern in every build
evaluate_ishl ==
    LET ishl_lane(i, b) ==
            LET src0 == ReadInt(src[1][i], bit_size)
                src1 == CVal(4, FALSE, Field(src[2][i], 4))
                k    == ShiftCount(src1, LocalW(bit_size))
                d    == Conv(CVal(Promote(src0).w, TRUE, BvShl(Promote(src0).v, k)),
                             LocalW(bit_size), TRUE)
            IN  LaneOut(<<src0, src1>>, StoreInt(dst[i], bit_size, d))
    IN  Evaluate("ishl", IntSizes, AnyBuild,
                 [b \in AnyBuild |->
                     Tup([i \in 1..num_components |-> ishl_lane(i, b)], num_components)])

\* bcsel: dst = src0 ? src1 : src2, src0 a bool1_t
evaluate_bcsel ==
    LET bcsel_lane(i, b) ==
            LET src0 == ReadB(src[1][i])
                src1 == ReadUint(src[2][i], bit_size)
                src2 == ReadUint(src[3][i], bit_size)
                d    == Conv(CCond(src0, src1, src2), LocalW(bit_size), FALSE)
            IN  LaneOut(<<src0, src1, src2>>, StoreInt(dst[i], bit_size, d))
    IN  Evaluate("bcsel", IntSizes, AnyBuild,
                 [b \in AnyBuild |->
                     Tup([i \in 1..num_components |-> bcsel_lane(i, b)], num_components)])

\* usub_borrow: dst = src0 < src1
evaluate_usub_borrow ==
    LET usub_borrow_lane(i, b) ==
            LET src0 == ReadUint(src[1][i], bit_size)
                src1 == ReadUint(src[2][i], bit_size)
                d    == Conv(CLt(src0, src1), LocalW(bit_size), FALSE)
            IN  LaneOut(<<src0, src1>>, StoreInt(dst[i], bit_size, d))
    IN  Evaluate("usub_borrow", IntSizes, AnyBuild,
                 [b \in AnyBuild |->
                     Tup([i \in 1..num_components |-> usub_borrow_lane(i, b)], num_components)])

\* uadd_carry: dst = src0 + src1 < src0
evaluate_uadd_carry ==
    LET uadd_carry_lane(i, b) ==
            LET src0 == ReadUint(src[1][i], bit_size)
                src1 == ReadUint(src[2][i], bit_size)
                d    == Conv(CLt(CAdd(src0, src1), src0), LocalW(bit_size), FALSE)
            IN  LaneOut(<<src0, src1>>, StoreInt(dst[i], bit_size, d))
    IN  Evaluate("uadd_carry", IntSizes, AnyBuild,
                 [b \in AnyBuild |->
                     Tup([i \in 1..num_components |-> uadd_carry_lane(i, b)], num_components)])

\* ubm_mul_u32arr(prod, a, b): the product of the numbers held by the arrays
\* of 32-bit words a and b, least significant word first, in the n words of
\* prod (the arrays as their bytes)
ubm_mul_u32arr(a, b, n) == SubSeq(BvMul(a, b), 1, 4 * n)

\* the multiplication of the low 32-bit words of the operands only, unsigned
evaluate_mul_high_low_word(signed) ==
    Evaluate(IF signed THEN "imul_high" ELSE "umul_high", IntSizes, AnyBuild,
             [b \in AnyBuild |->
                 Tup([i \in 1..num_components |->
                         LET src0 == ReadUint(src[1][i], bit_size)
                             src1 == ReadUint(src[2][i], bit_size)
                             prod == BvMul(Conv(src0, 4, FALSE).v, Conv(src1, 4, FALSE).v)
                             d    == CVal(8, signed, BvShrU(prod, IF bit_size = 64 THEN 32
                                                                  ELSE bit_size))
                         IN  LaneOut(<<src0, src1>>, StoreInt(dst[i], bit_size, d))],
                     num_components)])

\* imul_high (signed) and umul_high:
\*    if (bit_size == 64) {
\*       uint32_t src0_u32[4] = { src0, (int64_t)src0 >> 32,
\*                                (int64_t)src0 >> 63, (int64_t)src0 >> 63 };
\*       (umul_high: uint32_t src0_u32[2] = { src0, (uint64_t)src0 >> 32 };)
\*       uint32_t prod_u32[4];
\*       ubm_mul_u32arr(prod_u32, src0_u32, src1_u32);
\*       dst = (uint64_t)prod_u32[2] | ((uint64_t)prod_u32[3] << 32);
\*    } else {
\*       dst = ((int64_t)src0 * (int64_t)src1) >> bit_size;
\*    }
\* (>> of a negative int64_t shifts the sign in, in every build)
evaluate_mul_high(signed) ==
    LET shr(x, k) ==
            CVal(8, signed,
                 FromBits(8, [n \in 0..63 |->
                                 IF n + k < 64 THEN Bit(Conv(x, 8, signed).v, n + k)
                                 ELSE IF signed THEN SignBit(Conv(x, 8, signed).v)
                                 ELSE 0]))
        word(x) == Conv(x, 4, FALSE).v
        u32arr(x) ==
            IF signed
            THEN word(x) \o word(shr(x, 32)) \o word(shr(x, 63)) \o word(shr(x, 63))
            ELSE word(x) \o word(shr(x, 32))
        mul_high_lane(i, b) ==
            LET src0 == IF signed THEN ReadInt(src[1][i], bit_size)
                        ELSE ReadUint(src[1][i], bit_size)
                src1 == IF signed THEN ReadInt(src[2][i], bit_size)
                        ELSE ReadUint(src[2][i], bit_size)
                prod_u32 == ubm_mul_u32arr(u32arr(src0), u32arr(src1), 4)
                prod == CVal(8, signed,
                             SubSeq(BvMul(Conv(src0, 8, signed).v,
                                          Conv(src1, 8, signed).v), 1, 8))
                d    == Conv(IF bit_size = 64 THEN CVal(8, FALSE, SubSeq(prod_u32, 9, 16))
                             ELSE shr(prod, bit_size),
                             LocalW(bit_size), signed)
            IN  LaneOut(<<src0, src1>>, StoreInt(dst[i], bit_size, d))
    IN  Evaluate(IF signed THEN "imul_high" ELSE "umul_high", IntSizes, AnyBuild,
                 [b \in AnyBuild |->
                     Tup([i \in 1..num_components |-> mul_high_lane(i, b)], num_components)])

\* imul_2x32_64 (signed) and umul_2x32_64: no switch on bit_size; the
\* operands are the 32-bit fields, the result is stored to the 64-bit field
\*    int64_t dst = (int64_t)src0 * (int64_t)src1;
evaluate_mul_2x32_64(signed) ==
    LET mul_2x32_64_lane(i, b) ==
            LET src0 == CVal(4, signed, Field(src[1][i], 4))
                src1 == CVal(4, signed, Field(src[2][i], 4))
                d    == SubSeq(BvMul(Conv(src0, 8, signed).v, Conv(src1, 8, signed).v), 1, 8)
            IN  LaneOut(<<src0, src1>>, SetField(dst[i], d))
    IN  Evaluate(IF signed THEN "imul_2x32_64" ELSE "umul_2x32_64", {bit_size}, AnyBuild,
                 [b \in AnyBuild |->
                     Tup([i \in 1..num_components |-> mul_2x32_64_lane(i, b)],
                         num_components)])

\* uhadd, ihadd:   dst = (src0 & src1) + ((src0 ^ src1) >> 1)
\* urhadd, irhadd: dst = (src0 | src1) + ((src0 ^ src1) >> 1)
\* in the common type of the promoted operands; >> shifts the sign of a signed
\* operand in, and a signed sum that overflows wraps in every build: it is
\* only stored
evaluate_hadd(signed, rounding) ==
    LET bitwise(x, y, f) ==
            CVal(CommonW(x, y), CommonS(x, y),
                 FromBits(CommonW(x, y),
                          [k \in 0..(8 * CommonW(x, y) - 1) |->
                              f[Bit(Lhs(x, y).v, k) + Bit(Rhs(x, y).v, k) + 1]]))
        shr1(x) ==
            CVal(x.w, x.s,
                 FromBits(x.w, [k \in 0..(8 * x.w - 1) |->
                                   IF k + 1 < 8 * x.w THEN Bit(x.v, k + 1)
                                   ELSE IF x.s THEN SignBit(x.v) ELSE 0]))
        hadd_lane(i, b) ==
            LET src0 == IF signed THEN ReadInt(src[1][i], bit_size)
                        ELSE ReadUint(src[1][i], bit_size)
                src1 == IF signed THEN ReadInt(src[2][i], bit_size)
                        ELSE ReadUint(src[2][i], bit_size)
                both == IF rounding THEN bitwise(src0, src1, <<0, 1, 1>>)
                        ELSE bitwise(src0, src1, <<0, 0, 1>>)
                d    == Conv(CAdd(both, shr1(bitwise(src0, src1, <<0, 1, 0>>))),
                             LocalW(bit_size), signed)
            IN  LaneOut(<<src0, src1>>, StoreInt(dst[i], bit_size, d))
    IN  Evaluate(IF signed THEN (IF rounding THEN "irhadd" ELSE "ihadd")
                 ELSE (IF rounding THEN "urhadd" ELSE "uhadd"), IntSizes, AnyBuild,
                 [b \in AnyBuild |->
                     Tup([i \in 1..num_components |-> hadd_lane(i, b)], num_components)])

\* usub_sat: dst = src0 < src1 ? 0 : src0 - src1
evaluate_usub_sat ==
    LET usub_sat_lane(i, b) ==
            LET src0 == ReadUint(src[1][i], bit_size)
                src1 == ReadUint(src[2][i], bit_size)
                d    == Conv(CCond(CLt(src0, src1), CInt(0), CSub(src0, src1)),
                             LocalW(bit_size), FALSE)
            IN  LaneOut(<<src0, src1>>, StoreInt(dst[i], bit_size, d))
    IN  Evaluate("usub_sat", IntSizes, AnyBuild,
                 [b \in AnyBuild |->
                     Tup([i \in 1..num_components |-> usub_sat_lane(i, b)], num_components)])

\* isub_sat:
\*    src1 < 0 ?
\*       (src0 - src1 < src0 ? (1ull << (bit_size - 1)) - 1 : src0 - src1) :
\*       (src0 < src0 - src1 ? (1ull << (bit_size - 1))     : src0 - src1)
\* (a comparison whose operand is a signed difference that overflowed is
\* computed on the wrapped difference, or folded to what it is for the exact
\* one: x - y < x to y > 0, x < x - y to y < 0)
evaluate_isub_sat ==
    LET SubOverflows(x, y) ==
            /\ CommonS(x, y)
            /\ SignBit(Lhs(x, y).v) # SignBit(Rhs(x, y).v)
            /\ SignBit(CSub(x, y).v) # SignBit(Lhs(x, y).v)
        isub_sat_lane(i, b) ==
            LET src0 == ReadInt(src[1][i], bit_size)
                src1 == ReadInt(src[2][i], bit_size)
                folded == SubOverflows(src0, src1) /\ b = "x86_O2"
                neg  == CCond(IF folded THEN CLt(CInt(0), src1)
                              ELSE CLt(CSub(src0, src1), src0),
                              CSub(ULL_SHL1(bit_size - 1), CInt(1)),
                              CSub(src0, src1))
                pos  == CCond(IF folded THEN CLt(src1, CInt(0))
                              ELSE CLt(src0, CSub(src0, src1)),
                              ULL_SHL1(bit_size - 1),
                              CSub(src0, src1))
                d    == Conv(CCond(CLt(src1, CInt(0)), neg, pos), LocalW(bit_size), TRUE)
            IN  LaneOut(<<src0, src1>>, StoreInt(dst[i], bit_size, d))
    IN  Evaluate("isub_sat", IntSizes, Builds,
                 [b \in Builds |->
                     Tup([i \in 1..num_components |-> isub_sat_lane(i, b)], num_components)])

\* src0 / src1 or src0 % src1 overflows (INT_MIN and -1), which is undefined
\* behaviour, and the build's instruction traps on it: idiv raises #DE,
\* delivered as SIGFPE; sdiv does not
DivTraps(x, y, b) ==
    /\ CommonS(x, y)
    /\ Lhs(x, y).v = BvMinS(CommonW(x, y))
    /\ Rhs(x, y).v = Ones(CommonW(x, y))
    /\ b # "arm64"

\* idiv: dst = src1 == 0 ? 0 : (src0 / src1)
evaluate_idiv ==
    LET idiv_lane(i, b) ==
            LET src0 == ReadInt(src[1][i], bit_size)
                src1 == ReadInt(src[2][i], bit_size)
            IN  IF CTrue(CEq(src1, CInt(0)))
                THEN LaneOut(<<src0, src1>>, StoreInt(dst[i], bit_size, CInt(0)))
                ELSE IF DivTraps(src0, src1, b) THEN LaneTrap(<<src0, src1>>, dst[i])
                ELSE LaneOut(<<src0, src1>>,
                             StoreInt(dst[i], bit_size,
                                      Conv(CDiv(src0, src1), LocalW(bit_size), TRUE)))
    IN  Evaluate("idiv", IntSizes, Targets,
                 [b \in Targets |->
                     Tup([i \in 1..num_components |-> idiv_lane(i, b)], num_components)])

\* the division of udiv without the test of the divisor: div raises #DE on 0
udiv_lane_unguarded(i, b) ==
    LET src0 == ReadUint(src[1][i], bit_size)
        src1 == ReadUint(src[2][i], bit_size)
    IN  IF CTrue(CEq(src1, CInt(0))) THEN LaneTrap(<<src0, src1>>, dst[i])
        ELSE LaneOut(<<src0, src1>>,
                     StoreInt(dst[i], bit_size,
                              Conv(CDiv(src0, src1), LocalW(bit_size), FALSE)))

\* udiv: dst = src1 == 0 ? 0 : (src0 / src1)
udiv_lane(i, b) ==
    LET src0 == ReadUint(src[1][i], bit_size)
        src1 == ReadUint(src[2][i], bit_size)
    IN  IF CTrue(CEq(src1, CInt(0)))
        THEN LaneOut(<<src0, src1>>, StoreInt(dst[i], bit_size, CInt(0)))
        ELSE LaneOut(<<src0, src1>>,
                     StoreInt(dst[i], bit_size,
                              Conv(CDiv(src0, src1), LocalW(bit_size), FALSE)))

evaluate_udiv ==
    Evaluate("udiv", IntSizes, AnyBuild,
             [b \in AnyBuild |->
                 Tup([i \in 1..num_components |-> udiv_lane(i, b)], num_components)])

\* imod: dst = src1 == 0 ? 0 :
\*    ((src0 % src1 == 0 || (src0 >= 0) == (src1 >= 0)) ?
\*       src0 % src1 : src0 % src1 + src1)
evaluate_imod ==
    LET imod_lane(i, b) ==
            LET src0 == ReadInt(src[1][i], bit_size)
                src1 == ReadInt(src[2][i], bit_size)
                mod  == IF \/ CTrue(CEq(CRem(src0, src1), CInt(0)))
                           \/ CTrue(CEq(CGe(src0, CInt(0)), CGe(src1, CInt(0))))
                        THEN CRem(src0, src1)
                        ELSE CAdd(CRem(src0, src1), src1)
            IN  IF CTrue(CEq(src1, CInt(0)))
                THEN LaneOut(<<src0, src1>>, StoreInt(dst[i], bit_size, CInt(0)))
                ELSE IF DivTraps(src0, src1, b) THEN LaneTrap(<<src0, src1>>, dst[i])
                ELSE LaneOut(<<src0, src1>>,
                             StoreInt(dst[i], bit_size,
                                      Conv(mod, LocalW(bit_size), TRUE)))
    IN  Evaluate("imod", IntSizes, Targets,
                 [b \in Targets |->
                     Tup([i \in 1..num_components |-> imod_lane(i, b)], num_components)])

\* umod: dst = src1 == 0 ? 0 : src0 % src1
evaluate_umod ==
    LET umod_lane(i, b) ==
            LET src0 == ReadUint(src[1][i], bit_size)
                src1 == ReadUint(src[2][i], bit_size)
            IN  IF CTrue(CEq(src1, CInt(0)))
                THEN LaneOut(<<src0, src1>>, StoreInt(dst[i], bit_size, CInt(0)))
                ELSE LaneOut(<<src0, src1>>,
                             StoreInt(dst[i], bit_size,
                                      Conv(CRem(src0, src1), LocalW(bit_size), FALSE)))
    IN  Evaluate("umod", IntSizes, AnyBuild,
                 [b \in AnyBuild |->
                     Tup([i \in 1..num_components |-> umod_lane(i, b)], num_components)])

\* irem: dst = src1 == 0 ? 0 : src0 % src1
evaluate_irem ==
    LET irem_lane(i, b) ==
            LET src0 == ReadInt(src[1][i], bit_size)
                src1 == ReadInt(src[2][i], bit_size)
            IN  IF CTrue(CEq(src1, CInt(0)))
                THEN LaneOut(<<src0, src1>>, StoreInt(dst[i], bit_size, CInt(0)))
                ELSE IF DivTraps(src0, src1, b) THEN LaneTrap(<<src0, src1>>, dst[i])
                ELSE LaneOut(<<src0, src1>>,
                             StoreInt(dst[i], bit_size,
                                      Conv(CRem(src0, src1), LocalW(bit_size), TRUE)))
    IN  Evaluate("irem", IntSizes, Targets,
                 [b \in Targets |->
                     Tup([i \in 1..num_components |-> irem_lane(i, b)], num_components)])

\* offset + bits > 32 on ints: computed on the wrapped sum, or folded to what
\* it is for the exact sum when the sum overflows
SumGt32(x, y, b) ==
    IF AddOverflows(x, y) /\ b = "x86_O2" THEN CGe(x, CInt(0))
    ELSE CLt(CInt(32), CAdd(x, y))

\* ubitfield_extract:
\*   unsigned base = src0; int offset = src1, bits = src2;
\*   if (bits == 0) dst = 0;
\*   else if (bits < 0 || offset < 0 || offset + bits > 32) dst = 0;
\*   else dst = (base >> offset) & ((1ull << bits) - 1);
\* A shift by a count of the width or more is undefined behaviour: the shift
\* instructions of x86 and arm64 use the low bits of the count.
\* (the evaluator has no switch: its loop runs at every bit_size)
evaluate_ubitfield_extract ==
    LET ubitfield_extract_lane(i, b) ==
            LET base   == CVal(4, FALSE, Field(src[1][i], 4))
                offset == CVal(4, TRUE, Field(src[2][i], 4))
                bits   == CVal(4, TRUE, Field(src[3][i], 4))
                field  == CAnd(CVal(4, FALSE, BvShrU(base.v, ShiftCount(offset, 4))),
                               CSub(ULL_SHL1(ShiftCount(bits, 8)), CInt(1)))
                d      == IF CTrue(CEq(bits, CInt(0))) THEN CInt(0)
                          ELSE IF \/ CTrue(CLt(bits, CInt(0)))
                                  \/ CTrue(CLt(offset, CInt(0)))
                                  \/ CTrue(SumGt32(offset, bits, b))
                               THEN CInt(0)
                          ELSE field
            IN  LaneOut(<<base, offset, bits>>, SetField(dst[i], Conv(d, 4, FALSE).v))
    IN  Evaluate("ubitfield_extract", {bit_size}, Builds,
                 [b \in Builds |->
                     Tup([i \in 1..num_components |-> ubitfield_extract_lane(i, b)], num_components)])

\* ibitfield_extract:
\*   int base = src0; int offset = src1, bits = src2;
\*   if (bits == 0) dst = 0;
\*   else if (offset < 0 || bits < 0 || offset + bits > 32) dst = 0;
\*   else dst = (base << (32 - offset - bits)) >> offset;
\* (<< shifts the bit pattern of base, >> shifts its sign in; the shift
\* instructions use the low bits of the count)
evaluate_ibitfield_extract ==
    LET ibitfield_extract_lane(i, b) ==
            LET base   == CVal(4, TRUE, Field(src[1][i], 4))
                offset == CVal(4, TRUE, Field(src[2][i], 4))
                bits   == CVal(4, TRUE, Field(src[3][i], 4))
                left   == BvShl(base.v, ShiftCount(CSub(CSub(CInt(32), offset), bits), 4))
                field  == CVal(4, TRUE,
                               FromBits(4, [k \in 0..31 |->
                                               IF k + ShiftCount(offset, 4) < 32
                                               THEN Bit(left, k + ShiftCount(offset, 4))
                                               ELSE SignBit(left)]))
                d      == IF CTrue(CEq(bits, CInt(0))) THEN CInt(0)
                          ELSE IF \/ CTrue(CLt(offset, CInt(0)))
                                  \/ CTrue(CLt(bits, CInt(0)))
                                  \/ CTrue(SumGt32(offset, bits, b))
                               THEN CInt(0)
                          ELSE field
            IN  LaneOut(<<base, offset, bits>>, SetField(dst[i], Conv(d, 4, TRUE).v))
    IN  Evaluate("ibitfield_extract", {bit_size}, Builds,
                 [b \in Builds |->
                     Tup([i \in 1..num_components |-> ibitfield_extract_lane(i, b)], num_components)])

\* bitfield_insert:
\*   unsigned base = src0, insert = src1; int offset = src2, bits = src3;
\*   if (bits == 0) dst = base;
\*   else if (offset < 0 || bits < 0 || bits + offset > 32) dst = 0;
\*   else { unsigned mask = ((1ull << bits) - 1) << offset;
\*          dst = (base & ~mask) | ((insert << offset) & mask); }
\* (the evaluator has no switch: its loop runs at every bit_size)
evaluate_bitfield_insert ==
    LET bitfield_insert_lane(i, b) ==
            LET base   == CVal(4, FALSE, Field(src[1][i], 4))
                insert == CVal(4, FALSE, Field(src[2][i], 4))
                offset == CVal(4, TRUE, Field(src[3][i], 4))
                bits   == CVal(4, TRUE, Field(src[4][i], 4))
                mask   == Conv(CVal(8, FALSE,
                                    BvShl(CSub(ULL_SHL1(ShiftCount(bits, 8)), CInt(1)).v,
                                          ShiftCount(offset, 8))), 4, FALSE)
                shifted == BvShl(insert.v, ShiftCount(offset, 4))
                merged == FromBits(4, [k \in 0..31 |->
                                          IF Bit(mask.v, k) = 1 THEN Bit(shifted, k)
                                          ELSE Bit(base.v, k)])
                d      == IF CTrue(CEq(bits, CInt(0))) THEN base.v
                          ELSE IF \/ CTrue(CLt(offset, CInt(0)))
                                  \/ CTrue(CLt(bits, CInt(0)))
                                  \/ CTrue(SumGt32(bits, offset, b))
                               THEN Zeros(4)
                          ELSE merged
            IN  LaneOut(<<base, insert, offset, bits>>, SetField(dst[i], d))
    IN  Evaluate("bitfield_insert", {bit_size}, Builds,
                 [b \in Builds |->
                     Tup([i \in 1..num_components |-> bitfield_insert_lane(i, b)], num_components)])

\* while (!(tmp & 1)) { tmp >>= 1; insert <<= 1; }   for mask # 0: the number
\* of iterations, counted from n; after n iterations tmp is mask >> n
RECURSIVE bfi_loop(_, _)
bfi_loop(mask, n) ==
    IF Bit(mask, n) = 1 THEN n ELSE bfi_loop(mask, n + 1)

\* bfi:
\*   unsigned mask = src0, insert = src1, base = src2;
\*   if (mask == 0) dst = base;
\*   else { unsigned tmp = mask;
\*          while (!(tmp & 1)) { tmp >>= 1; insert <<= 1; }
\*          dst = (base & ~mask) | (insert & mask); }
\* (the evaluator has no switch: its loop runs at every bit_size)
evaluate_bfi ==
    LET bfi_lane(i, b) ==
            LET mask   == Field(src[1][i], 4)
                insert == Field(src[2][i], 4)
                base   == Field(src[3][i], 4)
                d      == IF BvIsZero(mask) THEN base
                          ELSE FromBits(4, [k \in 0..31 |->
                                   IF Bit(mask, k) = 1
                                   THEN Bit(BvShl(insert, bfi_loop(mask, 0)), k)
                                   ELSE Bit(base, k)])
            IN  LaneOut(<<CVal(4, FALSE, mask), CVal(4, FALSE, insert), CVal(4, FALSE, base)>>,
                        SetField(dst[i], d))
    IN  Evaluate("bfi", {bit_size}, AnyBuild,
                 [b \in AnyBuild |->
                     Tup([i \in 1..num_components |-> bfi_lane(i, b)], num_components)])

\* a folded constant of one
fold_constant_one(bs) ==
    IF bs = 16 THEN FloatToHalf(PackFloat(4, 0, 127, 0))
    ELSE PackFloat(bs \div 8, 0, Bias(bs \div 8), 0)

\* float16_t dst = 0.0; ... .u16 = _mesa_float_to_half(dst);
\* float32_t dst = 0.0; ... .f32 = dst;      float64_t dst = 0.0; ... .f64 = dst;
fold_constant(bs) ==
    IF bs = 16 THEN FloatToHalf(PackFloat(4, 0, 0, 0))
    ELSE PackFloat(bs \div 8, 0, 0, 0)

\* fddx, fddx_coarse, fddx_fine, fddy, fddy_coarse, fddy_fine read no source:
\*    for (unsigned _i = 0; _i < num_components; _i++) {
\*       float32_t dst = 0.0;
\*       _dst_val[_i].f32 = dst; }
evaluate_fdd(name) ==
    Evaluate(name, FloatSizes, AnyBuild,
             [b \in AnyBuild |->
                 Tup([i \in 1..num_components |->
                         LaneOut(<<>>, SetField(dst[i], fold_constant(bit_size)))],
                     num_components)])

\* fnoiseN_M (N, M in 1..4) reads no source and has no loop:
\*    dst.x = dst.y = dst.z = dst.w = 0.0f;
\*    _dst_val[0].f32 = dst.x;  ...  up to component N
evaluate_fnoise(n, m) ==
    Evaluate("fnoise" \o <<"1", "2", "3", "4">>[n] \o "_" \o <<"1", "2", "3", "4">>[m],
             FloatSizes, AnyBuild,
             [b \in AnyBuild |->
                 Tup([i \in 1..n |->
                         LaneOut(<<>>, SetField(dst[i], fold_constant(bit_size)))], n)])

\* the pack and unpack formats: snorm/unorm 4x8 and 2x16, half 2x16
PackFormats == {"snorm_4x8", "unorm_4x8", "snorm_2x16", "unorm_2x16", "half_2x16"}

\* pack_snorm_1x8, pack_unorm_1x8, pack_snorm_1x16, pack_unorm_1x16:
\*    return (uint8_t) (int) _mesa_roundevenf(CLAMP(x, -1.0f, +1.0f) * 127.0f);
\* with the bounds and the scale of the format, and pack_half_1x16:
\*    return _mesa_float_to_half(x);
\* as one or two bytes.  The cast of a NaN to int is undefined behaviour.
pack_1x_truncating(fmt, x, b) ==
    LET one   == PackFloat(4, 0, 127, 0)
        lo    == IF fmt \in {"snorm_4x8", "snorm_2x16"} THEN PackFloat(4, 1, 127, 0)
                 ELSE PackFloat(4, 0, 0, 0)
        scale == CASE fmt = "snorm_4x8"  -> RoundTo(4, 0, FromNat(4, 127), 0)
                   [] fmt = "unorm_4x8"  -> RoundTo(4, 0, FromNat(4, 255), 0)
                   [] fmt = "snorm_2x16" -> RoundTo(4, 0, FromNat(4, 32767), 0)
                   [] fmt = "unorm_2x16" -> RoundTo(4, 0, FromNat(4, 65535), 0)
        w     == IF fmt \in {"snorm_4x8", "unorm_4x8"} THEN 1 ELSE 2
    IN  IF fmt = "half_2x16" THEN FloatToHalf(x)
        ELSE SubSeq(FloatToReg(FMul(CLAMP(x, lo, one), scale), TRUE, b), 1, w)

pack_1x(fmt, x, b) ==
    LET one   == PackFloat(4, 0, 127, 0)
        lo    == IF fmt \in {"snorm_4x8", "snorm_2x16"} THEN PackFloat(4, 1, 127, 0)
                 ELSE PackFloat(4, 0, 0, 0)
        scale == CASE fmt = "snorm_4x8"  -> RoundTo(4, 0, FromNat(4, 127), 0)
                   [] fmt = "unorm_4x8"  -> RoundTo(4, 0, FromNat(4, 255), 0)
                   [] fmt = "snorm_2x16" -> RoundTo(4, 0, FromNat(4, 32767), 0)
                   [] fmt = "unorm_2x16" -> RoundTo(4, 0, FromNat(4, 65535), 0)
        w     == IF fmt \in {"snorm_4x8", "unorm_4x8"} THEN 1 ELSE 2
    IN  IF fmt = "half_2x16" THEN FloatToHalf(x)
        ELSE SubSeq(FloatToReg(FRoundEven(FMul(CLAMP(x, lo, one), scale)), TRUE, b), 1, w)

\* pack_snorm_4x8 (and likewise the other formats):
\*    const struct float32_vec src0 = { _src[0][0].f32, ..., _src[0][3].f32 };
\*    dst.x = (uint32_t) pack_snorm_1x8(src0.x);
\*    dst.x |= ((uint32_t) pack_snorm_1x8(src0.y)) << 8;   ... << 16, << 24
\*    _dst_val[0].u32 = dst.x;
\* the 2x16 formats read src0.x and src0.y and shift the second by 16.
\* (the evaluators have no switch and no loop)
evaluate_pack(fmt) ==
    LET n == IF fmt \in {"snorm_4x8", "unorm_4x8"} THEN 4 ELSE 2
        src0 == Tup([k \in 1..n |-> Field(src[1][k], 4)], n)
        word(b) == IF n = 4
                   THEN pack_1x(fmt, src0[1], b) \o pack_1x(fmt, src0[2], b)
                        \o pack_1x(fmt, src0[3], b) \o pack_1x(fmt, src0[4], b)
                   ELSE pack_1x(fmt, src0[1], b) \o pack_1x(fmt, src0[2], b)
    IN  Evaluate("pack_" \o fmt, {bit_size}, Targets,
                 [b \in Targets |-> <<LaneOut(src0, SetField(dst[1], word(b)))>>])

\* unpack_snorm_4x8 (and likewise unorm_4x8):
\*    const struct uint32_vec src0 = { _src[0][0].u32, 0, 0, 0 };
\*    dst.x = unpack_snorm_1x8((uint8_t)(src0.x & 0xff));
\*    dst.y = unpack_snorm_1x8((uint8_t)((src0.x >> 8) & 0xff));
\*    dst.z = unpack_snorm_1x8((uint8_t)((src0.x >> 16) & 0xff));
\*    dst.w = unpack_snorm_1x8((uint8_t)(src0.x >> 24));
\*    _dst_val[0].f32 = dst.x; ... _dst_val[3].f32 = dst.w;
\* unpack_snorm_2x16 (and likewise unorm_2x16, half_2x16):
\*    dst.x = unpack_snorm_1x16((uint16_t)(src0.x & 0xffff));
\*    dst.y = unpack_snorm_1x16((uint16_t)(src0.x << 16));
\*    _dst_val[0].f32 = dst.x; _dst_val[1].f32 = dst.y;
evaluate_unpack(fmt) ==
    LET \* unpack_snorm_1x8:  return CLAMP((int8_t) u / 127.0f, -1.0f, +1.0f);
        \* unpack_unorm_1x8:  return (float) u / 255.0f;
        \* (and the 1x16 forms with 32767.0f and 65535.0f)
        \* unpack_half_1x16:  return _mesa_half_to_float(u);
        unpack_1x(u) ==
            LET one   == PackFloat(4, 0, 127, 0)
                scale == CASE fmt = "snorm_4x8"  -> RoundTo(4, 0, FromNat(4, 127), 0)
                           [] fmt = "unorm_4x8"  -> RoundTo(4, 0, FromNat(4, 255), 0)
                           [] fmt = "snorm_2x16" -> RoundTo(4, 0, FromNat(4, 32767), 0)
                           [] fmt = "unorm_2x16" -> RoundTo(4, 0, FromNat(4, 65535), 0)
                f     == IF fmt \in {"snorm_4x8", "snorm_2x16"}
                         THEN RoundTo(4, SignBit(u), IF SignBit(u) = 1 THEN BvNeg(u) ELSE u, 0)
                         ELSE RoundTo(4, 0, u, 0)
            IN  IF fmt = "half_2x16" THEN HalfToFloat(u)
                ELSE IF fmt \in {"snorm_4x8", "snorm_2x16"}
                     THEN CLAMP(FDiv(f, scale), PackFloat(4, 1, 127, 0), one)
                ELSE FDiv(f, scale)
        n == IF fmt \in {"snorm_4x8", "unorm_4x8"} THEN 4 ELSE 2
        x == Field(src[1][1], 4)
        part(k) == IF n = 4 THEN SubSeq(BvShrU(x, 8 * (k - 1)), 1, 1)
                   ELSE IF k = 1 THEN SubSeq(x, 1, 2)
                   ELSE SubSeq(BvShl(x, 16), 1, 2)
    IN  Evaluate("unpack_" \o fmt, {bit_size}, AnyBuild,
                 [b \in AnyBuild |->
                     Tup([k \in 1..n |->
                             LaneOut(<<x>>, SetField(dst[k], unpack_1x(part(k))))], n)])

\* pack_64_4x16:
\*    const struct uint16_vec src0 = { _src[0][0].u16, ..., _src[0][3].u16 };
\*    dst.x = src0.x | ((uint64_t)src0.y << 16) | ((uint64_t)src0.z << 32)
\*                   | ((uint64_t)src0.w << 48);
\*    _dst_val[0].u64 = dst.x;
\* pack_64_2x32: dst.x = src0.x | ((uint64_t)src0.y << 32);
\* pack_32_2x16: dst.x = src0.x | ((uint32_t)src0.y << 16); _dst_val[0].u32
\* (the evaluators have no switch and no loop)
evaluate_pack_int(fmt) ==
    LET n  == IF fmt = "64_4x16" THEN 4 ELSE 2
        w  == IF fmt = "64_2x32" THEN 4 ELSE 2
        src0 == Tup([k \in 1..n |-> Field(src[1][k], w)], n)
        shifted(k) == BvShl(ZExt(src0[k], n * w), 8 * w * (k - 1))
        x  == FromBits(n * w, [q \in 0..(8 * n * w - 1) |->
                                  IF \E k \in 1..n : Bit(shifted(k), q) = 1 THEN 1 ELSE 0])
    IN  Evaluate("pack_" \o fmt, {bit_size}, AnyBuild,
                 [b \in AnyBuild |-> <<LaneOut(src0, SetField(dst[1], x))>>])

\* unpack_64_4x16:
\*    const struct uint64_vec src0 = { _src[0][0].u64, 0, 0, 0 };
\*    dst.x = src0.x; dst.y = src0.x >> 16; dst.z = src0.x >> 32;
\*    dst.w = src0.w >> 48;
\*    _dst_val[0].u16 = dst.x; ... _dst_val[3].u16 = dst.w;
\* unpack_64_2x32: dst.x = src0.x; dst.y = src0.x >> 32; _dst_val[0..1].u32
\* unpack_32_2x16: dst.x = src0.x; dst.y = src0.x >> 16; _dst_val[0..1].u16
evaluate_unpack_int(fmt) ==
    LET n  == IF fmt = "64_4x16" THEN 4 ELSE 2
        w  == IF fmt = "64_2x32" THEN 4 ELSE 2
        src0 == <<Field(src[1][1], n * w), Zeros(n * w), Zeros(n * w), Zeros(n * w)>>
        part(k) == SubSeq(BvShrU(src0[IF k = 4 THEN 4 ELSE 1], 8 * w * (k - 1)), 1, w)
    IN  Evaluate("unpack_" \o fmt, {bit_size}, AnyBuild,
                 [b \in AnyBuild |->
                     Tup([k \in 1..n |-> LaneOut(<<src0[1]>>, SetField(dst[k], part(k)))], n)])

(***************************************************************************)
(* Callers: the operand vectors a call is given                             *)
(***************************************************************************)
\* how many of the candidate operand values the callers draw from
NumValues == 7

IntCandidates(w) ==
    << Zeros(w), FromNat(w, 1), Ones(w), BvMinS(w), BvMaxS(w), FromNat(w, 10),
       FromNat(w, 250), BvNeg(FromNat(w, 7)), FromNat(w, 2), FromNat(w, 127) >>

\* the number of operand values of a bit size: a 1-bit lane holds a bool
NumOf(bs) == IF bs = 1 THEN 2 ELSE NumValues

\* a vector whose lane 0 holds candidate j of the bit size (the rest of the
\* union zeroed) and whose next lanes step by stride
SrcVec(bs, j, stride) ==
    Tup([k \in Lanes |->
            LET c == ((j - 1 + stride * (k - 1)) % NumOf(bs)) + 1
            IN  IF bs = 1 THEN ZExt(<<c - 1>>, LaneBytes)
                ELSE ZExt(IntCandidates(bs \div 8)[c], LaneBytes)], 4)

NoVec == Tup([k \in Lanes |-> Zeros(LaneBytes)], 4)

\* a call; the destination holds 0xAA bytes before it
InitCall ==
    /\ op = "none"
    /\ outcome = "none"
    /\ pc = "call"
    /\ seen = Tup([i \in Lanes |-> <<>>], 4)
    /\ num_components \in Lanes
    /\ dst_in = Tup([k \in Lanes |-> Tup([i \in 1..LaneBytes |-> 170], LaneBytes)], 4)
    /\ dst = dst_in
    /\ prev = [op |-> "none", bit_size |-> 0, num_components |-> 0,
               src |-> <<NoVec, NoVec, NoVec, NoVec>>, dst |-> NoVec]
    /\ heap = <<>>
    /\ thr = <<>>
    /\ v3d_compile = <<>>

\* two integer operands of the same bit size
InitInt2 ==
    /\ InitCall
    /\ bit_size \in IntSizes
    /\ \E j0 \in 1..NumOf(bit_size), j1 \in 1..NumOf(bit_size) :
          src = <<SrcVec(bit_size, j0, 1), SrcVec(bit_size, j1, 2), NoVec, NoVec>>

\* two vectors that agree in every lane, or in every lane but one
InitReduce ==
    LET \* the vector (j, j+1, j+2, j+3), with lane c (if any) changed
        RedVec(bs, j, e) ==
            Tup([k \in Lanes |->
                    IF bs = 1 THEN ZExt(<<(j + k + (IF k = e THEN 1 ELSE 0)) % 2>>, LaneBytes)
                    ELSE ZExt(FromNat(bs \div 8, j + k - 1 + (IF k = e THEN 1 ELSE 0)),
                              LaneBytes)], 4)
    IN  /\ InitCall
        /\ bit_size \in IntSizes
        /\ \E j \in 1..NumValues, c \in 0..4 :
              src = <<RedVec(bit_size, j, 0), RedVec(bit_size, j, c), NoVec, NoVec>>

FloatVec(bs, j, stride) ==
    LET \* float operands: 0, 1, NaN, -1, +Inf, 3, a large finite value, -0, 0.5,
        \* -Inf, the least subnormal
        FloatCandidates(n) ==
            << PackFloat(n, 0, 0, 0), PackFloat(n, 0, Bias(n), 0),
               PackFloat(n, 0, ExpMax(n), 128), PackFloat(n, 1, Bias(n), 0),
               PackFloat(n, 0, ExpMax(n), 0), PackFloat(n, 0, Bias(n) + 1, 128),
               PackFloat(n, 0, IF n = 2 THEN 30 ELSE Bias(n) + 40, 128),
               PackFloat(n, 1, 0, 0), PackFloat(n, 0, Bias(n) - 1, 0),
               PackFloat(n, 1, ExpMax(n), 0), [PackFloat(n, 0, 0, 0) EXCEPT ![1] = 1] >>
    IN  Tup([k \in Lanes |->
                ZExt(FloatCandidates(bs \div 8)[((j - 1 + stride * (k - 1)) % NumValues) + 1],
                     LaneBytes)], 4)

\* two float operands of the same bit size
InitFloat2 ==
    /\ InitCall
    /\ bit_size \in FloatSizes
    /\ \E j0 \in 1..NumValues, j1 \in 1..NumValues :
          src = <<FloatVec(bit_size, j0, 1), FloatVec(bit_size, j1, 2), NoVec, NoVec>>

\* two float vectors, the same one twice or one a lane ahead of the other
InitReduceFloat ==
    /\ InitCall
    /\ bit_size \in FloatSizes
    /\ \E j \in 1..NumValues, d \in 0..1 :
          src = <<FloatVec(bit_size, j, 1), FloatVec(bit_size, j + d, 1), NoVec, NoVec>>

\* a boolean selector (alternating from lane 0 = c) and two integer operands
\* of the same bit size
InitSel ==
    /\ InitCall
    /\ bit_size \in IntSizes
    /\ \E c \in 0..1, j \in 1..NumOf(bit_size) :
          src = << Tup([k \in Lanes |-> ZExt(<<(k + 1 + c) % 2>>, LaneBytes)], 4),
                   SrcVec(bit_size, j, 1), SrcVec(bit_size, j + 1, 2), NoVec >>

\* integer, float and selector operands
\* 32-bit words to extract from
BaseCandidates ==
    << <<0, 0, 0, 128>>, Ones(4), <<120, 86, 52, 18>> >>

FieldVec(j, stride) ==
    LET \* offsets and bit counts: 0, 1, 30, 8, 32, -1, INT_MAX, 31, 16, INT_MIN
        FieldCandidates ==
            << Zeros(4), FromNat(4, 1), FromNat(4, 30), FromNat(4, 8), FromNat(4, 32),
               Ones(4), BvMaxS(4), FromNat(4, 31), FromNat(4, 16), BvMinS(4) >>
    IN  Tup([k \in Lanes |->
                ZExt(FieldCandidates[((j - 1 + stride * (k - 1)) % NumValues) + 1], LaneBytes)], 4)

\* a base, an offset and a bit count, all 32-bit; or a base, a word to insert
\* (the base candidates in another order), an offset and a bit count
InitField ==
    /\ InitCall
    /\ bit_size = 32
    /\ \E j0 \in 1..3, j1 \in 1..NumValues, j2 \in 1..NumValues :
          LET BaseVec(j) == Tup([k \in Lanes |->
                                  ZExt(BaseCandidates[((j + k - 2) % 3) + 1], LaneBytes)], 4)
          IN  \/ src = <<BaseVec(j0), FieldVec(j1, 1), FieldVec(j2, 2), NoVec>>
              \/ \E d \in 1..2 :
                    src = <<BaseVec(j0), BaseVec(j0 + d), FieldVec(j1, 1), FieldVec(j2, 2)>>

\* the caller passes the word a pack call returned as the first source of a
\* next call, with a fresh destination
pass_on ==
    /\ pc = "done"
    /\ outcome = "ok"
    /\ prev.op = "none"
    /\ op \in {"pack_" \o fmt : fmt \in PackFormats \cup {"64_4x16", "64_2x32", "32_2x16"}}
    /\ pc' = "call"
    /\ prev' = [op |-> op, bit_size |-> bit_size, num_components |-> num_components,
                src |-> src, dst |-> dst]
    /\ src' = <<dst, NoVec, NoVec, NoVec>>
    /\ dst' = dst_in
    /\ seen' = Tup([i \in Lanes |-> <<>>], 4)
    /\ outcome' = "none"
    /\ UNCHANGED <<op, bit_size, num_components, dst_in, heap, thr, v3d_compile>>

\* a vector of four floats to pack
InitPack ==
    LET \* floats to pack: 1, -1, 0, 0.5, 0.1f, -0.75, 2, a third, -3, the greatest
        \* float below 1, the least binary16 subnormal, 65504
        PackCandidates ==
            << PackFloat(4, 0, 127, 0), PackFloat(4, 1, 127, 0), PackFloat(4, 0, 0, 0),
               PackFloat(4, 0, 126, 0), <<205, 204, 204, 61>>, PackFloat(4, 1, 126, 128),
               PackFloat(4, 0, 128, 0), <<171, 170, 170, 62>>, PackFloat(4, 1, 128, 128),
               <<255, 255, 127, 63>>, PackFloat(4, 0, 103, 0), <<0, 224, 127, 71>> >>
    IN  /\ InitCall
        /\ bit_size = 32
        /\ num_components \in {2, 4}
        /\ \E j \in 1..NumValues, stride \in 1..2 :
              src = << Tup([k \in Lanes |->
                               ZExt(PackCandidates[((j - 1 + stride * (k - 1)) % NumValues) + 1],
                                    LaneBytes)], 4), NoVec, NoVec, NoVec >>

SpecPack ==
    InitPack
        /\ [][ \/ \E fmt \in PackFormats : evaluate_pack(fmt)
               \/ \E fmt \in PackFormats : evaluate_unpack(fmt)
               \/ pass_on ]_vars

\* the words to join are the lanes of the first operand
SpecSplit ==
    InitReduce
        /\ [][ \/ \E fmt \in {"64_4x16", "64_2x32", "32_2x16"} : evaluate_pack_int(fmt)
               \/ \E fmt \in {"64_4x16", "64_2x32", "32_2x16"} : evaluate_unpack_int(fmt)
               \/ pass_on ]_vars

SpecCompare ==
    (InitInt2 \/ InitFloat2)
        /\ [][ \E c \in CompareOps : evaluate_compare(c[1], c[2], c[3]) ]_vars

SpecAlu ==
    (InitInt2 \/ InitFloat2 \/ InitSel)
        /\ [][ \/ evaluate_iadd
               \/ evaluate_uadd_sat
               \/ evaluate_iadd_sat
               \/ evaluate_b2i1
               \/ evaluate_i2i1
               \/ evaluate_u2u1
               \/ evaluate_f2i1
               \/ evaluate_f2u1
               \/ evaluate_iand
               \/ evaluate_ishl
               \/ evaluate_bcsel
               \/ evaluate_usub_borrow
               \/ evaluate_idiv
               \/ evaluate_udiv ]_vars

SpecDiv ==
    InitInt2
        /\ [][ \/ evaluate_idiv
               \/ evaluate_udiv
               \/ evaluate_imod
               \/ evaluate_umod
               \/ evaluate_irem ]_vars

SpecInt ==
    InitInt2
        /\ [][ \/ evaluate_uadd_carry
               \/ evaluate_usub_borrow
               \/ \E signed \in BOOLEAN : evaluate_mul_high(signed)
               \/ \E signed \in BOOLEAN : evaluate_mul_2x32_64(signed)
               \/ \E signed \in BOOLEAN, rounding \in BOOLEAN : evaluate_hadd(signed, rounding)
               \/ evaluate_usub_sat
               \/ evaluate_isub_sat ]_vars

\* three 32-bit words: a mask, a word to insert, a base
InitWords ==
    /\ InitCall
    /\ bit_size = 32
    /\ \E j0 \in 1..3, j1 \in 1..NumValues :
          src = << Tup([k \in Lanes |->
                           ZExt(BaseCandidates[((j0 + k - 2) % 3) + 1], LaneBytes)], 4),
                   FieldVec(j1, 1),
                   Tup([k \in Lanes |->
                           ZExt(BaseCandidates[((j0 + k - 1) % 3) + 1], LaneBytes)], 4),
                   NoVec >>

\* lane-wise opcodes of one, two and three sources
SpecLanes ==
    (InitInt2 \/ InitSel \/ InitWords)
        /\ [][ \/ evaluate_iadd
               \/ \E c \in CompareOps : evaluate_compare(c[1], c[2], c[3])
               \/ evaluate_bcsel
               \/ evaluate_bfi
               \/ evaluate_idiv ]_vars

SpecField ==
    InitField
        /\ [][ \/ evaluate_ubitfield_extract
               \/ evaluate_ibitfield_extract
               \/ evaluate_bitfield_insert ]_vars

SpecReduce ==
    (InitReduce \/ InitReduceFloat)
        /\ [][ \/ evaluate_ball_iequal4
               \/ evaluate_b32all_iequal4
               \/ \E r \in BoolReduceOps : evaluate_bool_reduce(r[1], r[2], r[3])
               \/ \E fam \in {"fall_equal", "fany_nequal"}, n \in {2, 3, 4} : evaluate_float_reduce(fam, n)
               \/ \E d \in {"fdot2", "fdot3", "fdot4", "fdph"} \X BOOLEAN : evaluate_dot(d[1], d[2]) ]_vars

\* three integer operands of the same bit size
InitSeq ==
    /\ InitCall
    /\ bit_size \in IntSizes
    /\ num_components \in {2, 3}
    /\ \E j \in {1, 3} :
          src = <<SrcVec(bit_size, j, 1), SrcVec(bit_size, j + 1, 2),
                  SrcVec(bit_size, j + 2, 1), NoVec>>

\* the caller calls again after a call that returned, with the same sources
\* or with the first two exchanged and with the same or another
\* num_components, into a destination as the first one was; it keeps the
\* call before, or the one that just returned, to compare with
call_again ==
    /\ pc = "done"
    /\ outcome = "ok"
    /\ pc' = "call"
    /\ prev' \in {prev, [op |-> op, bit_size |-> bit_size,
                         num_components |-> num_components, src |-> src, dst |-> dst]}
    /\ src' \in {src, <<src[2], src[1], src[3], src[4]>>}
    /\ num_components' \in {2, 3}
    /\ dst' = dst_in
    /\ seen' = Tup([i \in Lanes |-> <<>>], 4)
    /\ outcome' = "none"
    /\ UNCHANGED <<op, bit_size, dst_in, heap, thr, v3d_compile>>

\* sequences of calls of evaluators of one, two and three sources
SpecSeq ==
    InitSeq
        /\ [][ \/ evaluate_iadd
               \/ evaluate_bcsel
               \/ evaluate_bfi
               \/ evaluate_fnoise(1, 1)
               \/ call_again ]_vars

\* the opcodes of the enumeration nir_op dispatched here: the integer, boolean
\* and comparison opcodes, the reductions to a boolean or a float, the
\* derivatives and the noise functions among the 265 cases of the switch
nir_op ==
    {"iadd", "uadd_sat", "iadd_sat", "ball_iequal4", "b32all_iequal4", "b2i1",
     "i2i1", "u2u1", "f2i1", "f2u1", "iand", "ishl", "bcsel", "usub_borrow",
     "idiv", "udiv", "imod", "umod", "irem", "ubitfield_extract",
     "bitfield_insert", "bfi", "fddx", "fddx_coarse", "fddx_fine", "fddy",
     "fddy_coarse", "fddy_fine"}
        \cup {r[1] \o r[2] \o <<"1", "2", "3", "4">>[r[3]] : r \in BoolReduceOps}
        \cup {fam \o n : fam \in {"fall_equal", "fany_nequal"}, n \in {"2", "3", "4"}}
        \cup {c[1] \o c[2] \o (IF c[3] THEN "32" ELSE "") : c \in CompareOps}
        \cup {"fnoise" \o n \o "_" \o m : n \in {"1", "2", "3", "4"},
                                          m \in {"1", "2", "3", "4"}}

\* the dispatcher with the default label falling into the last case
nir_eval_const_opcode_drifted(o) ==
    \/ \E name \in {o} \cap {"fddx"} : evaluate_fdd(name)
    \/ \E name \in {"fddy_fine"} \ {o} : o # "fddx" /\ evaluate_fdd(name)

\* nir_eval_const_opcode:
\*    switch (op) {
\*    case nir_op_iadd:
\*       return evaluate_iadd(dest, num_components, bit_width, src);
\*    ...
\*    default:
\*       unreachable("shouldn't get here");
\*    }
nir_eval_const_opcode(o) ==
    \/ o = "iadd" /\ evaluate_iadd
    \/ o = "uadd_sat" /\ evaluate_uadd_sat
    \/ o = "iadd_sat" /\ evaluate_iadd_sat
    \/ o = "ball_iequal4" /\ evaluate_ball_iequal4
    \/ o = "b32all_iequal4" /\ evaluate_b32all_iequal4
    \/ o = "b2i1" /\ evaluate_b2i1
    \/ o = "i2i1" /\ evaluate_i2i1
    \/ o = "u2u1" /\ evaluate_u2u1
    \/ o = "f2i1" /\ evaluate_f2i1
    \/ o = "f2u1" /\ evaluate_f2u1
    \/ o = "iand" /\ evaluate_iand
    \/ o = "ishl" /\ evaluate_ishl
    \/ o = "bcsel" /\ evaluate_bcsel
    \/ o = "usub_borrow" /\ evaluate_usub_borrow
    \/ o = "idiv" /\ evaluate_idiv
    \/ o = "udiv" /\ evaluate_udiv
    \/ o = "imod" /\ evaluate_imod
    \/ o = "umod" /\ evaluate_umod
    \/ o = "irem" /\ evaluate_irem
    \/ o = "ubitfield_extract" /\ evaluate_ubitfield_extract
    \/ o = "bitfield_insert" /\ evaluate_bitfield_insert
    \/ o = "bfi" /\ evaluate_bfi
    \/ \E r \in {x \in BoolReduceOps : o = x[1] \o x[2] \o <<"1", "2", "3", "4">>[x[3]]} :
          evaluate_bool_reduce(r[1], r[2], r[3])
    \/ \E r \in {x \in {"fall_equal", "fany_nequal"} \X {2, 3, 4} :
                    o = x[1] \o <<"1", "2", "3", "4">>[x[2]]} :
          evaluate_float_reduce(r[1], r[2])
    \/ \E c \in {x \in CompareOps : o = x[1] \o x[2] \o (IF x[3] THEN "32" ELSE "")} :
          evaluate_compare(c[1], c[2], c[3])
    \/ \E name \in {o} \cap {"fddx", "fddx_coarse", "fddx_fine",
                            "fddy", "fddy_coarse", "fddy_fine"} :
          evaluate_fdd(name)
    \/ \E r \in {x \in (1..4) \X (1..4) :
                    o = "fnoise" \o <<"1", "2", "3", "4">>[x[1]]
                           \o "_" \o <<"1", "2", "3", "4">>[x[2]]} :
          evaluate_fnoise(r[1], r[2])
    \/ /\ o \notin nir_op
       /\ pc = "call"
       /\ pc' = "done"
       /\ op' = "none"
       /\ outcome' = unreachable("shouldn't get here")
       /\ seen' = Tup([i \in Lanes |-> <<>>], 4)
       /\ UNCHANGED <<bit_size, num_components, src, dst, dst_in, prev, heap, thr, v3d_compile>>

\* a call of the dispatcher with any bit width, the widths no evaluator
\* supports included, and two sources; the opcode is one of the enumeration or
\* a value of type nir_op outside it (nir_num_opcodes, and above)
InitDispatch ==
    /\ InitCall
    /\ bit_size \in IntSizes \cup {24, 128}
    /\ \E j \in 1..2 :
          LET bs == IF bit_size \in IntSizes THEN bit_size ELSE 32
          IN  src = <<SrcVec(bs, j, 1), SrcVec(bs, j + 1, 2), NoVec, NoVec>>

SpecDispatch ==
    InitDispatch
        /\ [][\E o \in nir_op \cup {"nir_num_opcodes", "nir_num_opcodes + 1"} :
                  nir_eval_const_opcode(o)]_vars

(***************************************************************************)
(* Calls in several threads on one address space.  heap[a] is the union at  *)
(* address a; a call is given the addresses of its source vectors and of    *)
(* its destination vector and runs a statement at a time: a read of a       *)
(* source lane, the statements before the inner loop, an iteration or the   *)
(* exit of the inner loop, the store of the destination lane.               *)
(***************************************************************************)
\* the lane addressed in the storage of the first call
lane_at_first(p, i) == ((p + i - 1) % 8) + 1

\* &p[_i]
lane_at(p, i) == p + i

\* bfi that enters its loop with any mask
bfi_mask_untested(mask) == FALSE

\* bfi: if (mask == 0)
bfi_mask_is_zero(mask) == BvIsZero(mask)

\* two calls of num_components lanes; the call of thread t has its three
\* source vectors at 8t-7, 8t-5, 8t-3 and its destination vector at 8t-1;
\* the destination holds 0xAA bytes before the call; bit_count runs at 64 bits
\* on one lane and at 8 bits on two
InitThreads ==
    /\ op = "none"
    /\ outcome = "none"
    /\ pc = "call"
    /\ seen = Tup([i \in Lanes |-> <<>>], 4)
    /\ bit_size = 32
    /\ num_components = 1
    /\ src = <<NoVec, NoVec, NoVec, NoVec>>
    /\ dst_in = NoVec
    /\ dst = NoVec
    /\ prev = [op |-> "none", bit_size |-> 0, num_components |-> 0,
               src |-> <<NoVec, NoVec, NoVec, NoVec>>, dst |-> NoVec]
    /\ v3d_compile = <<>>
    /\ \E n \in 1..2, o \in {<<"bfi", "ifind_msb">>, <<"bit_count", "bfi">>,
                             <<"ifind_msb", "bit_count">>},
          j \in 1..NumValues :
        LET bs == IF n = 1 THEN 64 ELSE 8
        IN
          /\ thr = Tup([t \in 1..2 |->
                          [op |-> o[t], bit_size |-> IF o[t] = "bit_count" THEN bs ELSE 32,
                           num_components |-> n,
                           src |-> <<8 * t - 7, 8 * t - 5, 8 * t - 3>>, dst |-> 8 * t - 1,
                           i |-> 0, pc |-> "read", regs |-> <<>>, tmp |-> Zeros(4),
                           insert |-> Zeros(4), dst_ |-> Zeros(4), bit |-> 0, trips |-> 0,
                           rd |-> {}, wr |-> {}]], 2)
          /\ heap = Tup([a \in 1..16 |->
                           IF (a - 1) % 8 >= 6
                           THEN Tup([k \in 1..LaneBytes |-> 170], LaneBytes)
                           ELSE ZExt(IntCandidates(IF o[((a - 1) \div 8) + 1] = "bit_count"
                                                   THEN bs \div 8 ELSE 4)
                                         [((j + a) % NumValues) + 1], LaneBytes)], 16)

\* the next statement of the call of thread t
evaluate_lane_step(t) ==
    LET c    == thr[t]
        nsrc == IF c.op = "bfi" THEN 3 ELSE 1
        w    == IF c.op = "bit_count" THEN LocalW(c.bit_size) ELSE 4
        one  == FromNat(4, 1)
        upd(f) == /\ thr' = [thr EXCEPT ![t] = f]
                  /\ heap' = heap
        \* const uintN_t srcj = _src[j][_i].uN;  after the last of them the
        \* statements up to the inner loop
        read ==
            LET a == lane_at(c.src[Len(c.regs) + 1], c.i)
                r == Append(c.regs, Field(heap[a], w))
                k == [c EXCEPT !.regs = r, !.rd = @ \cup {a}]
            IN  IF Len(r) < nsrc THEN upd(k)
                ELSE IF c.op = "bfi"
                     THEN (IF bfi_mask_is_zero(r[1])
                           THEN upd([k EXCEPT !.dst_ = r[3], !.pc = "store"])
                           ELSE upd([k EXCEPT !.tmp = r[1], !.insert = r[2], !.pc = "loop"]))
                ELSE IF c.op = "ifind_msb"
                     THEN upd([k EXCEPT !.dst_ = Ones(4), !.bit = 31, !.pc = "loop"])
                ELSE upd([k EXCEPT !.dst_ = Zeros(4), !.bit = 0, !.pc = "loop"])
        \* while (!(tmp & 1)) { tmp >>= 1; insert <<= 1; }
        \* dst = (base & ~mask) | (insert & mask);
        bfi ==
            IF Bit(c.tmp, 0) = 0
            THEN upd([c EXCEPT !.tmp = BvShrU(@, 1), !.insert = BvShl(@, 1),
                               !.trips = @ + 1])
            ELSE upd([c EXCEPT !.pc = "store",
                               !.dst_ = FromBits(4, [k \in 0..31 |->
                                                        IF Bit(c.regs[1], k) = 1
                                                        THEN Bit(c.insert, k)
                                                        ELSE Bit(c.regs[3], k)])])
        \* for (int bit = 31; bit >= 0; bit--)
        \*    if ((((src0 >> bit) & 1) && (src0 >= 0)) ||
        \*        (!((src0 >> bit) & 1) && (src0 < 0))) { dst = bit; break; }
        ifind_msb ==
            IF c.bit < 0 THEN upd([c EXCEPT !.pc = "store"])
            ELSE IF Bit(c.regs[1], c.bit) # SignBit(c.regs[1])
                 THEN upd([c EXCEPT !.dst_ = FromNat(4, c.bit), !.trips = @ + 1,
                                    !.pc = "store"])
            ELSE upd([c EXCEPT !.bit = @ - 1, !.trips = @ + 1])
        \* for (unsigned bit = 0; bit < bit_size; bit++)
        \*    if ((src0 >> bit) & 1) dst++;
        bit_count ==
            IF c.bit >= c.bit_size THEN upd([c EXCEPT !.pc = "store"])
            ELSE upd([c EXCEPT !.dst_ = IF Bit(c.regs[1], c.bit) = 1 THEN BvAdd(@, one)
                                        ELSE @,
                               !.bit = @ + 1, !.trips = @ + 1])
        \* _dst_val[_i].u32 = dst; _i++; _i < num_components
        store ==
            LET a == lane_at(c.dst, c.i)
            IN  /\ heap' = [heap EXCEPT ![a] = SetField(@, c.dst_)]
                /\ thr' = [thr EXCEPT ![t] =
                             [c EXCEPT !.wr = @ \cup {a}, !.i = @ + 1, !.regs = <<>>,
                                       !.trips = 0,
                                       !.pc = IF c.i + 1 < c.num_components THEN "read"
                                              ELSE "done"]]
    IN  /\ thr # <<>>
        /\ c.pc # "done"
        /\ IF c.pc = "read" THEN read
           ELSE IF c.pc = "store" THEN store
           ELSE IF c.op = "bfi" THEN bfi
           ELSE IF c.op = "ifind_msb" THEN ifind_msb
           ELSE bit_count
        /\ UNCHANGED <<op, bit_size, num_components, src, dst, dst_in, seen, outcome, pc,
                       prev, v3d_compile>>

SpecThreads ==
    InitThreads /\ [][ \E t \in 1..2 : evaluate_lane_step(t) ]_vars

\* every thread that can run is scheduled again
SpecTerm ==
    InitThreads /\ [][ \E t \in 1..2 : evaluate_lane_step(t) ]_vars
        /\ \A t \in 1..2 : WF_vars(evaluate_lane_step(t))

(***************************************************************************)
(* The logic-op lowering pass of the V3D compiler.  An instruction is a     *)
(* record; id is its position in the shader before the pass, 0 for an       *)
(* instruction the pass created.  An SSA value is the expression that       *)
(* defines it: <<"ssa", k>> is a value of the shader before the pass.       *)
(*   logicop_func  PIPE_LOGICOP_CLEAR 0, NOR 1, AND_INVERTED 2,             *)
(*                 COPY_INVERTED 3, AND_REVERSE 4, INVERT 5, XOR 6, NAND 7, *)
(*                 AND 8, EQUIV 9, NOOP 10, OR_INVERTED 11, COPY 12,        *)
(*                 OR_REVERSE 13, OR 14, SET 15                             *)
(*   location      FRAG_RESULT_DEPTH 0, FRAG_RESULT_COLOR 2,                *)
(*                 FRAG_RESULT_DATA0 4;  V3D_MAX_DRAW_BUFFERS is 4          *)
(*   swizzle       PIPE_SWIZZLE_X 0, Y 1, Z 2, W 3, PIPE_SWIZZLE_0 4,       *)
(*                 PIPE_SWIZZLE_1 5                                         *)
(***************************************************************************)
\* v3d_logicop whose default case returns dst
v3d_logicop_default_dst(logicop_func, s, d) ==
    IF logicop_func = 12 THEN s ELSE d

v3d_logicop(logicop_func, s, d) ==
    IF logicop_func = 0 THEN <<"imm_int", 0>>
    ELSE IF logicop_func = 1 THEN <<"inot", <<"ior", s, d>>>>
    ELSE IF logicop_func = 2 THEN <<"iand", <<"inot", s>>, d>>
    ELSE IF logicop_func = 3 THEN <<"inot", s>>
    ELSE IF logicop_func = 4 THEN <<"iand", s, <<"inot", d>>>>
    ELSE IF logicop_func = 5 THEN <<"inot", d>>
    ELSE IF logicop_func = 6 THEN <<"ixor", s, d>>
    ELSE IF logicop_func = 7 THEN <<"inot", <<"iand", s, d>>>>
    ELSE IF logicop_func = 8 THEN <<"iand", s, d>>
    ELSE IF logicop_func = 9 THEN <<"inot", <<"ixor", s, d>>>>
    ELSE IF logicop_func = 10 THEN d
    ELSE IF logicop_func = 11 THEN <<"ior", <<"inot", s>>, d>>
    ELSE IF logicop_func = 13 THEN <<"ior", s, <<"inot", d>>>>
    ELSE IF logicop_func = 14 THEN <<"ior", s, d>>
    ELSE IF logicop_func = 15 THEN <<"imm_int", -1>>
    ELSE s

\* v3d_nir_emit_logic_op with v3d_nir_get_tlb_color, v3d_emit_logic_op_raw,
\* v3d_emit_logic_op_unorm, v3d_get_format_swizzle_for_rt,
\* v3d_nir_swizzle_and_pack, v3d_nir_unpack_and_swizzle and
\* v3d_nir_get_swizzled_channel: the value stored to render target rt in
\* place of frag_color
v3d_nir_emit_logic_op(fs_key, frag_color, rt) ==
    LET fmt  == fs_key.color_fmt[rt + 1]
        swizzled(chans, swiz) ==
            IF swiz \in 0..3 THEN chans[swiz + 1]
            ELSE IF swiz = 5 THEN <<"imm_float", 1>>
            ELSE <<"imm_float", 0>>
        vec4(chans, swiz) ==
            <<"vec4", swizzled(chans, swiz[1]), swizzled(chans, swiz[2]),
                      swizzled(chans, swiz[3]), swizzled(chans, swiz[4])>>
        ident     == <<0, 1, 2, 3>>
        fmt_swz   == IF fmt.swizzle[1] = 2 /\ fmt.format # "B5G6R5_UNORM" THEN ident
                     ELSE fmt.swizzle
        src_chans == [i \in 1..4 |-> <<"channel", frag_color, i - 1>>]
        dst_chans == [i \in 1..4 |-> <<"load_tlb_color_v3d", rt, i - 1>>]
        op_res    == [i \in 1..4 |->
                         v3d_logicop(fs_key.logicop_func, src_chans[i],
                                     swizzled(dst_chans, fmt_swz[i]))]
        packed    == v3d_logicop(fs_key.logicop_func,
                                 <<"pack_unorm_4x8", vec4(src_chans, ident)>>,
                                 <<"pack_unorm_4x8", vec4(dst_chans, fmt_swz)>>)
    IN  IF fmt.format \in {"R8G8B8A8_UNORM", "B8G8R8A8_UNORM", "B5G6R5_UNORM"}
        THEN vec4([i \in 1..4 |-> <<"channel", <<"unpack_unorm_4x8", packed>>, i - 1>>],
                  fmt_swz)
        ELSE vec4(op_res, fmt_swz)

\* v3d_nir_lower_logic_ops with v3d_nir_lower_logic_ops_block and
\* v3d_nir_lower_logic_op_instr, on a shader of one block.  The instructions
\* the builder creates before a store are the four load_tlb_color_v3d
\* intrinsics and the arithmetic on them, kept here as one instruction
\* holding the expression.
v3d_nir_lower_logic_ops ==
    LET c == v3d_compile
        created(rt, result) ==
            Tup([i \in 1..5 |->
                    IF i <= 4
                    THEN [id |-> 0, type |-> "intrinsic",
                          intrinsic |-> "load_tlb_color_v3d", base |-> 0,
                          component |-> i - 1, num_components |-> 1,
                          src |-> <<"imm_int", rt>>]
                    ELSE [id |-> 0, type |-> "alu", intrinsic |-> "none", base |-> 0,
                          component |-> 0, num_components |-> 4, src |-> result]], 5)
        RECURSIVE foreach_variable(_, _)
        foreach_variable(intr, v) ==
            IF v > Len(c.outputs) THEN <<intr>>
            ELSE LET var == c.outputs[v]
                     rt  == var.driver_location
                 IN  IF \/ var.driver_location # intr.base
                        \/ (var.location # 2 /\ (var.location < 4 \/ var.location >= 4 + 4))
                        \/ c.fs_key.color_fmt[rt + 1].format = "R16G16B16A16_FLOAT"
                        \/ c.fs_key.color_fmt[rt + 1].format = "R8G8B8A8_SRGB"
                     THEN foreach_variable(intr, v + 1)
                     ELSE LET result == v3d_nir_emit_logic_op(c.fs_key, intr.src, rt)
                          IN  created(rt, result)
                              \o foreach_variable([intr EXCEPT !.src = result,
                                                               !.num_components = 4],
                                                  v + 1)
        RECURSIVE foreach_instr(_)
        foreach_instr(k) ==
            IF k > Len(c.s) THEN <<>>
            ELSE (IF c.s[k].type # "intrinsic" \/ c.s[k].intrinsic # "store_output"
                  THEN <<c.s[k]>>
                  ELSE foreach_variable(c.s[k], 1)) \o foreach_instr(k + 1)
    IN  /\ v3d_compile # <<>>
        /\ ~c.done
        /\ v3d_compile' =
              [c EXCEPT !.done = TRUE,
                        !.s = IF c.fs_key.logicop_func = 12 THEN c.s ELSE foreach_instr(1)]
        /\ UNCHANGED <<op, bit_size, num_components, src, dst, dst_in, seen, outcome, pc,
                       prev, heap, thr>>

\* a fragment shader of two instructions (a store_output to driver location
\* 0 or 1, another intrinsic, an ALU instruction), two output variables at
\* the driver locations 0 and 1, the formats of the two render targets and a
\* logic op, known or not; s_in keeps the shader as it is before the pass
InitV3d ==
    /\ op = "none"
    /\ outcome = "none"
    /\ pc = "call"
    /\ seen = Tup([i \in Lanes |-> <<>>], 4)
    /\ bit_size = 32
    /\ num_components = 1
    /\ src = <<NoVec, NoVec, NoVec, NoVec>>
    /\ dst_in = NoVec
    /\ dst = NoVec
    /\ prev = [op |-> "none", bit_size |-> 0, num_components |-> 0,
               src |-> <<NoVec, NoVec, NoVec, NoVec>>, dst |-> NoVec]
    /\ heap = <<>>
    /\ thr = <<>>
    /\ \E kinds \in {<<"store_output", 0>>, <<"store_output", 1>>, <<"load_input", 0>>,
                     <<"none", 0>>}
                    \X {<<"store_output", 0>>, <<"store_output", 1>>, <<"load_input", 0>>,
                        <<"none", 0>>},
          loc0 \in {0, 2, 4, 8}, loc1 \in {5, 7},
          fmt0 \in {<<"R8G8B8A8_UNORM", <<0, 1, 2, 3>>>>, <<"B8G8R8A8_UNORM", <<2, 1, 0, 3>>>>,
                    <<"B5G6R5_UNORM", <<2, 1, 0, 5>>>>, <<"R8G8B8A8_SRGB", <<0, 1, 2, 3>>>>,
                    <<"R16G16B16A16_FLOAT", <<0, 1, 2, 3>>>>,
                    <<"R8G8B8A8_UINT", <<0, 1, 2, 3>>>>},
          fmt1 \in {<<"R8G8B8A8_UNORM", <<0, 1, 2, 3>>>>,
                    <<"R16G16B16A16_FLOAT", <<0, 1, 2, 3>>>>},
          func \in 0..17 :
          LET s == Tup([k \in 1..2 |->
                           [id |-> k,
                            type |-> IF kinds[k][1] = "none" THEN "alu" ELSE "intrinsic",
                            intrinsic |-> kinds[k][1], base |-> kinds[k][2],
                            component |-> 0, num_components |-> 4,
                            src |-> <<"ssa", k>>]], 2)
          IN  v3d_compile =
                 [s |-> s, s_in |-> s, done |-> FALSE,
                  outputs |-> << [driver_location |-> 0, location |-> loc0],
                                 [driver_location |-> 1, location |-> loc1] >>,
                  fs_key |-> [logicop_func |-> func,
                              color_fmt |-> << [format |-> fmt0[1], swizzle |-> fmt0[2]],
                                               [format |-> fmt1[1], swizzle |-> fmt1[2]] >>]]

SpecV3d ==
    InitV3d /\ [][v3d_nir_lower_logic_ops]_vars

(***************************************************************************)
(* Properties                                                               *)
(***************************************************************************)
\* the call returned normally from opcode name
Returned(name) == pc = "done" /\ op = name /\ outcome = "ok"

\* the integer result of w bytes in destination lane i; a 1-bit result is
\* the bool in byte 0
Result(i, bs) == Field(dst[i], LocalW(bs))

\* source operand j of lane i as the caller stored it
Operand(j, i, bs) == Field(src[j][i], LocalW(bs))

\* min(a + b, 2^W - 1) on unsigned fields: the sum carries out exactly when
\* the wrapped sum is below an operand
MinSumMax(a, b, bs) ==
    IF bs = 1 THEN <<IF a[1] + b[1] >= 1 THEN 1 ELSE 0>>
    ELSE IF BvLtU(BvAdd(a, b), a) THEN Ones(Len(a)) ELSE BvAdd(a, b)

\* C1: at every bit width and for every pair of unsigned operands,
\* evaluate_uadd_sat writes min(a + b, 2^W - 1) to each result lane.
C1_uadd_sat_is_min ==
    Returned("uadd_sat") =>
        \A i \in 1..num_components :
            Result(i, bit_size) =
                MinSumMax(Operand(1, i, bit_size), Operand(2, i, bit_size), bit_size)

\* the sum a + b clamped to the signed range of the width
ClampSum(a, b) ==
    LET sum == BvAdd(a, b)
    IN  IF SignBit(a) = SignBit(b) /\ SignBit(sum) # SignBit(a)
        THEN (IF SignBit(a) = 1 THEN BvMinS(Len(a)) ELSE BvMaxS(Len(a)))
        ELSE sum

\* C2: at the bit widths 8, 16, 32 and 64 evaluate_iadd_sat writes a + b when
\* it is in range and the nearest bound of the signed range when it is not.
C2_iadd_sat_clamps ==
    (Returned("iadd_sat") /\ bit_size # 1) =>
        \A i \in 1..num_components :
            Result(i, bit_size) =
                ClampSum(Operand(1, i, bit_size), Operand(2, i, bit_size))

\* C3: at the bit widths 8, 16, 32 and 64 evaluate_iadd writes a + b reduced
\* modulo 2^W, never a clamped or wider value.
C3_iadd_wraps ==
    (Returned("iadd") /\ bit_size # 1) =>
        \A i \in 1..num_components :
            /\ Result(i, bit_size) =
                   BvAdd(Operand(1, i, bit_size), Operand(2, i, bit_size))
            /\ \A k \in (LocalW(bit_size) + 1)..LaneBytes : dst[i][k] = dst_in[i][k]

\* iadd at bit width 8 on 127 and 1 has stored -128
C3_witness ==
    /\ Returned("iadd")
    /\ bit_size = 8
    /\ \E i \in 1..num_components :
          /\ Operand(1, i, 8) = <<127>>
          /\ Operand(2, i, 8) = <<1>>
          /\ Result(i, 8) = <<128>>

\* the four lane pairs of the two sources are equal in the fields of the
\* bit size
AllPairsEqual == \A k \in Lanes : Operand(1, k, bit_size) = Operand(2, k, bit_size)

\* C4 as claimed: evaluate_ball_iequal4 at bit width 32 stores 0 in
\* destination lane 0 when a lane pair differs and -1 (all bits set) when
\* all four pairs are equal.
C4_ball_iequal4_minus_one ==
    (Returned("ball_iequal4") /\ bit_size = 32) =>
        Field(dst[1], 4) = (IF AllPairsEqual THEN Ones(4) ELSE Zeros(4))

\* C4 as amended: at bit width 32 evaluate_ball_iequal4 stores the 1-bit
\* boolean 0 or 1 in the b field of destination lane 0 and leaves the other
\* bytes of the lane alone; evaluate_b32all_iequal4 stores 0 or -1 (all 32
\* bits set) in the i32 field.
C4_iequal4_results ==
    /\ (Returned("ball_iequal4") /\ bit_size = 32) =>
          /\ Field(dst[1], 1) = <<IF AllPairsEqual THEN 1 ELSE 0>>
          /\ \A k \in 2..LaneBytes : dst[1][k] = dst_in[1][k]
    /\ (Returned("b32all_iequal4") /\ bit_size = 32) =>
          Field(dst[1], 4) = (IF AllPairsEqual THEN Ones(4) ELSE Zeros(4))

\* ball_iequal4 at bit width 32 on (1,2,3,4) and (1,2,3,4) has stored true
C4_witness ==
    /\ Returned("ball_iequal4")
    /\ bit_size = 32
    /\ \A k \in Lanes : Operand(1, k, 32) = FromNat(4, k) /\ Operand(2, k, 32) = FromNat(4, k)
    /\ Field(dst[1], 1) = <<1>>

Comparisons1 == {"ieq", "ine", "ilt", "ige", "ult", "uge", "feq", "fne", "flt", "fge"}

Comparisons32 ==
    {"ieq32", "ine32", "ilt32", "ige32", "ult32", "uge32", "feq32", "fne32", "flt32", "fge32"}

\* C5: every result lane a comparison opcode writes at bit width 32 (the i32
\* field written by the 32 variants) is all-zero or all-one bits, and every
\* result lane written at bit width 1 (the b field written by the other
\* comparisons) is exactly 0 or 1, whatever the operands and their bit size.
C5_comparison_encoding ==
    (pc = "done" /\ outcome = "ok") =>
        \A i \in 1..num_components :
            /\ op \in Comparisons32 => Field(dst[i], 4) \in {Zeros(4), Ones(4)}
            /\ op \in Comparisons1 => Field(dst[i], 1) \in {<<0>>, <<1>>}

\* C5 as stated: a comparison called at bit width 32 or 64 leaves all-zero
\* or all-one bits in the field it writes, and one called at bit width 1
\* leaves exactly 0 or 1 there.
C5_by_call_width ==
    (pc = "done" /\ outcome = "ok" /\ op \in Comparisons1 \cup Comparisons32) =>
        \A i \in 1..num_components :
            LET n == IF op \in Comparisons32 THEN 4 ELSE 1
            IN  /\ bit_size \in {32, 64} => Field(dst[i], n) \in {Zeros(n), Ones(n)}
                /\ bit_size = 1 => Field(dst[i], n) \in {Zeros(n), FromNat(n, 1)}

\* a 32 variant has stored -1 in one lane and 0 in another, on 64-bit operands
C5_witness ==
    /\ Returned("flt32")
    /\ bit_size = 64
    /\ \E i \in 1..num_components, k \in 1..num_components :
          Field(dst[i], 4) = Ones(4) /\ Field(dst[k], 4) = Zeros(4)

\* the conversions to a 1-bit integer
OneBitConversions == {"b2i1", "i2i1", "u2u1", "f2i1", "f2u1"}

\* the integer opcodes, whose destination has the bit size of the call
IntegerOps ==
    {"iadd", "uadd_sat", "iadd_sat", "iand", "ishl", "bcsel", "usub_borrow",
     "idiv", "udiv"}

\* C6: every result lane stored by an opcode whose destination is a 1-bit
\* integer (an integer opcode called at bit width 1, or one of the conversions
\* b2i1, i2i1, u2u1, f2i1, f2u1 from any source width) is 0 or 1: the b
\* field holds no bit above bit 0, whatever the intermediate value was.
C6_one_bit_results ==
    (/\ pc = "done"
     /\ outcome = "ok"
     /\ op \in OneBitConversions \/ (op \in IntegerOps /\ bit_size = 1)) =>
        \A i \in 1..num_components : Field(dst[i], 1) \in {<<0>>, <<1>>}

\* i2i1 of 32-bit operands has stored 1 for the operand -1 and 0 for an
\* even operand with bits above bit 0
C6_witness ==
    /\ Returned("i2i1")
    /\ bit_size = 32
    /\ \E i \in 1..num_components, k \in 1..num_components :
          /\ Operand(1, i, 32) = Ones(4)
          /\ Field(dst[i], 1) = <<1>>
          /\ Operand(1, k, 32) = FromNat(4, 10)
          /\ Field(dst[k], 1) = <<0>>

\* the opcodes that read their 1-bit operands as signed integers
SignedReaders == {"iadd", "iadd_sat", "ishl", "idiv", "i2i1"}

\* the operands of lane i that were read from a 1-bit source lane (the shift
\* count of ishl is a 32-bit operand at every bit size)
OneBitReads(i) == {j \in 1..Len(seen[i]) : seen[i][j].w = 1}

\* C7 as stated: every operand read from a 1-bit source lane is seen as 0 or
\* -1, by the signed, the unsigned and the boolean readers alike.
C7_reads_zero_or_minus_one ==
    (pc = "done" /\ bit_size = 1 /\ outcome = "ok") =>
        \A i \in 1..num_components : \A j \in OneBitReads(i) :
            Conv(seen[i][j], 4, TRUE).v \in {Zeros(4), Ones(4)}

\* C7: an evaluator that reads a 1-bit source lane as a signed integer (iadd,
\* iadd_sat, ishl, idiv, i2i1) sees 0 or -1; one that reads it as an unsigned
\* integer or a boolean (uadd_sat, iand, bcsel, usub_borrow, udiv, u2u1,
\* b2i1) sees 0 or 1.
C7_reads_by_signedness ==
    (pc = "done" /\ bit_size = 1 /\ outcome = "ok") =>
        \A i \in 1..num_components : \A j \in OneBitReads(i) :
            /\ seen[i][j].s = (op \in SignedReaders)
            /\ Conv(seen[i][j], 4, TRUE).v \in
                  (IF op \in SignedReaders THEN {Zeros(4), Ones(4)}
                   ELSE {Zeros(4), FromNat(4, 1)})

\* iadd at bit width 1 has read -1 from a set bit and 0 from a clear bit
C7_witness ==
    /\ Returned("iadd")
    /\ bit_size = 1
    /\ \E i \in 1..num_components :
          /\ Field(src[1][i], 1) = <<1>>
          /\ seen[i][1] = CVal(1, TRUE, <<255>>)
          /\ Field(src[2][i], 1) = <<0>>
          /\ seen[i][2] = CVal(1, TRUE, <<0>>)

DivOps == {"idiv", "udiv", "imod", "umod", "irem"}

SignedDivOps == {"idiv", "imod", "irem"}

\* lane k holds the pair of a signed division that overflows
OverflowLane(k) ==
    /\ op \in SignedDivOps
    /\ bit_size \in {32, 64}
    /\ Operand(1, k, bit_size) = BvMinS(LocalW(bit_size))
    /\ Operand(2, k, bit_size) = Ones(LocalW(bit_size))

C9_division_never_traps ==
    (pc = "done" /\ op \in SignedDivOps /\ bit_size \in {8, 16, 32, 64}) =>
        /\ outcome = "ok"
        /\ \A i \in 1..num_components : seen[i] # <<>>

\* the signed value of a 32-bit vector
ToInt32(v) ==
    IF SignBit(v) = 1 THEN ToNat([v EXCEPT ![4] = v[4] % 128]) - 2147483647 - 1
    ELSE ToNat(v)

\* bits [offset, offset + bits) of base as an unsigned 32-bit value
ExtractField(base, offset, bits) ==
    FromBits(4, [k \in 0..31 |-> IF k < bits THEN Bit(base, k + offset) ELSE 0])

\* what ubitfield_extract is specified to return
ExtractExpected(base, offset, bits) ==
    IF bits = 0 THEN Zeros(4)
    ELSE IF bits < 0 \/ offset < 0 \/ offset > 32 - bits THEN Zeros(4)
    ELSE ExtractField(base, offset, bits)

\* C10: for all 32-bit base, offset and bits, ubitfield_extract returns 0
\* when bits = 0, 0 when bits < 0 or offset < 0 or offset + bits > 32, and
\* otherwise bits [offset, offset + bits) of base.
C10_ubitfield_extract ==
    (pc = "done" /\ op = "ubitfield_extract") =>
        /\ outcome = "ok"
        /\ \A i \in 1..num_components :
              Field(dst[i], 4) =
                 ExtractExpected(Field(src[1][i], 4), ToInt32(Field(src[2][i], 4)),
                                 ToInt32(Field(src[3][i], 4)))


\* base with bits [offset, offset + bits) replaced by the low bits of insert
InsertExpected(base, insert, offset, bits) ==
    IF bits = 0 THEN base
    ELSE IF offset < 0 \/ bits < 0 \/ offset > 32 - bits THEN Zeros(4)
    ELSE FromBits(4, [k \in 0..31 |->
                         IF k >= offset /\ k < offset + bits
                         THEN Bit(insert, k - offset) ELSE Bit(base, k)])

\* C11: bitfield_insert returns base when bits == 0, 0 when offset < 0 or
\* bits < 0 or offset + bits > 32, and otherwise base with the bits
\* [offset, offset + bits) replaced by the low bits of insert.
C11_bitfield_insert ==
    (pc = "done" /\ op = "bitfield_insert") =>
        /\ outcome = "ok"
        /\ \A i \in 1..num_components :
              Field(dst[i], 4) =
                 InsertExpected(Field(src[1][i], 4), Field(src[2][i], 4),
                                ToInt32(Field(src[3][i], 4)), ToInt32(Field(src[4][i], 4)))


\* pack_snorm_4x8 has returned from the source vector (1.0, -1.0, 0.0, 0.5)
PackedExample ==
    /\ Returned("pack_snorm_4x8")
    /\ Field(src[1][1], 4) = PackFloat(4, 0, 127, 0)
    /\ Field(src[1][2], 4) = PackFloat(4, 1, 127, 0)
    /\ Field(src[1][3], 4) = PackFloat(4, 0, 0, 0)
    /\ Field(src[1][4], 4) = PackFloat(4, 0, 126, 0)

\* C12 as claimed: pack_snorm_4x8 on (1.0, -1.0, 0.0, 0.5) writes the word
\* whose bytes are 127, 0x80, 0, 64 to destination lane 0.
C12_pack_snorm_bytes == PackedExample => Field(dst[1], 4) = <<127, 128, 0, 64>>

\* C12: pack_snorm_4x8 on (1.0, -1.0, 0.0, 0.5) writes to destination lane 0
\* the word whose bytes, from least to most significant, are 127, 0x81 (-127),
\* 0 and 64: -1.0 scales to -127, and 63.5 rounds to the even 64.
C12_pack_snorm_example == PackedExample => Field(dst[1], 4) = <<127, 129, 0, 64>>

C12_witness == PackedExample /\ prev.op = "none"


\* the magnitude of the float v (below 2^43) in units of 2^-149
FixedOf(v) == BvShl(ZExt(FDecode(v).m, 24), FDecode(v).e + 149)

\* |a - x| <= 1 / k for the floats a and x and the integer k < 65536
WithinStep(a, x, k) ==
    LET A == FixedOf(a)
        X == FixedOf(x)
        D == IF SignBit(a) # SignBit(x) THEN BvAdd(A, X)
             ELSE IF BvLtU(A, X) THEN BvSub(X, A) ELSE BvSub(A, X)
        unit == BvShl(FromNat(26, 1), 149)
    IN  ~BvLtU(unit, BvMul(D, FromNat(2, k)))

\* the lanes and the quantization steps of the normalized formats
NormLanes(fmt) == IF fmt \in {"snorm_4x8", "unorm_4x8"} THEN 4 ELSE 2

NormSteps(fmt) ==
    CASE fmt = "snorm_4x8"  -> 127
      [] fmt = "unorm_4x8"  -> 255
      [] fmt = "snorm_2x16" -> 32767
      [] fmt = "unorm_2x16" -> 65535

\* x lies in [-1, 1] (snorm) or in [0, 1] (unorm)
InNormRange(fmt, x) ==
    /\ ~IsNaN(x)
    /\ ~FLt(PackFloat(4, 0, 127, 0), x)
    /\ ~FLt(x, IF fmt \in {"snorm_4x8", "snorm_2x16"} THEN PackFloat(4, 1, 127, 0)
               ELSE PackFloat(4, 0, 0, 0))

\* the unpack evaluator of fmt has returned from the word its pack evaluator
\* produced
RoundTrip(fmt) ==
    /\ Returned("unpack_" \o fmt)
    /\ prev.op = "pack_" \o fmt

\* C13: for the formats snorm 4x8, unorm 4x8, snorm 2x16 and unorm 2x16 and
\* every source lane in the range of the format, the unpack evaluator applied
\* to the word of the pack evaluator returns in every lane of the vector a
\* value within one quantization step of the original lane.
C13_unpack_pack_within_step ==
    \A fmt \in PackFormats \ {"half_2x16"} :
        RoundTrip(fmt) =>
            \A k \in 1..NormLanes(fmt) :
                InNormRange(fmt, Field(prev.src[1][k], 4)) =>
                    WithinStep(Field(dst[k], 4), Field(prev.src[1][k], 4), NormSteps(fmt))


\* the float x is a value of binary16: converting it to half and back gives x
HalfRepresentable(x) == ~IsNaN(x) /\ HalfToFloat(FloatToHalf(x)) = x

\* C14: for every pair (x, y) of values representable in binary16,
\* unpack_half_2x16 applied to the word written by pack_half_2x16 on (x, y)
\* writes exactly x to destination lane 0 and exactly y to destination lane 1.
C14_half_round_trip ==
    (/\ RoundTrip("half_2x16")
     /\ HalfRepresentable(Field(prev.src[1][1], 4))
     /\ HalfRepresentable(Field(prev.src[1][2], 4))) =>
        /\ Field(dst[1], 4) = Field(prev.src[1][1], 4)
        /\ Field(dst[2], 4) = Field(prev.src[1][2], 4)


\* the opcodes that reduce their sources to a scalar
ReducingOps ==
    {pre \o fam \o n : pre \in {"b", "b32"},
                      fam \in {"all_fequal", "all_iequal", "any_fnequal", "any_inequal"},
                      n \in {"2", "3", "4"}}
    \cup {fam \o n : fam \in {"fall_equal", "fany_nequal"}, n \in {"2", "3", "4"}}
    \cup {"fdot2", "fdot3", "fdot4", "fdph"}

\* the reductions that store their result to every lane
ReplicatedOps == {"fdot_replicated2", "fdot_replicated3", "fdot_replicated4", "fdph_replicated"}

\* C15: whatever num_components is, a scalar-reducing opcode writes destination
\* lane 0 only: the destination lanes 1, 2 and 3 hold after the call exactly
\* what they held before it.
C15_reductions_write_lane_0 ==
    (pc = "done" /\ op \in ReducingOps) =>
        \A i \in 2..4 : dst[i] = dst_in[i]

\* a dot product of four components has stored its result, called with
\* num_components = 4
C15_witness ==
    /\ Returned("fdot4")
    /\ num_components = 4
    /\ dst[1] # dst_in[1]
    /\ \A i \in 2..4 : dst[i] = dst_in[i]

\* the scalar in lane i of a destination of the call's bit size
Scalar(i) == Field(dst[i], bit_size \div 8)

\* C16: at every bit width and every num_components, fdot_replicated2/3/4 and
\* fdph_replicated write the same scalar reduction result into all four
\* destination lanes: the value the reduction fdot2/3/4 or fdph computes.
C16_replicated_in_all_lanes ==
    (pc = "done" /\ op \in ReplicatedOps /\ outcome = "ok") =>
        /\ \A i \in Lanes : Scalar(i) = Scalar(1) /\ dst[i] # dst_in[i]
        /\ LET n    == CASE op = "fdot_replicated2" -> 2 [] op = "fdot_replicated3" -> 3
                         [] op = "fdot_replicated4" -> 4 [] op = "fdph_replicated" -> 3
               src0 == Tup([k \in Lanes |-> ReadFloat(src[1][k], bit_size)], 4)
               src1 == Tup([k \in Lanes |-> ReadFloat(src[2][k], bit_size)], 4)
               sum  == IF op = "fdph_replicated" THEN FAdd(dot_sum(src0, src1, 3), src1[4])
                       ELSE dot_sum(src0, src1, n)
           IN  Scalar(1) = IF bit_size = 16 THEN FloatToHalf(sum) ELSE sum

\* fdot_replicated3 has returned a nonzero finite sum with num_components = 1
C16_witness ==
    /\ Returned("fdot_replicated3")
    /\ num_components = 1
    /\ ~IsZeroF(Scalar(1))
    /\ ExpField(Scalar(1)) # ExpMax(bit_size \div 8)
    /\ \A i \in Lanes : Scalar(i) = Scalar(1)

\* the lane-wise opcodes of SpecLanes
LaneWiseOps ==
    {"iadd", "bcsel", "bfi", "idiv"}
        \cup {c[1] \o c[2] \o (IF c[3] THEN "32" ELSE "") : c \in CompareOps}

\* the opcodes of SpecLanes that read their sources as floats
FloatLaneOps ==
    {c[1] \o c[2] \o (IF c[3] THEN "32" ELSE "") : c \in {x \in CompareOps : x[1] = "f"}}

\* what an evaluator can read from lane l: its float, or its boolean, its
\* integer of the call's width (signed or unsigned), its 32-bit word
LaneReads(l) ==
    IF op \in FloatLaneOps THEN {ReadFloat(l, bit_size)}
    ELSE {ReadB(l), ReadInt(l, bit_size), ReadUint(l, bit_size),
          CVal(4, FALSE, Field(l, 4))}

\* lane i of the destination is what the opcode gives for lane i of the sources
LaneLocal(i) ==
    LET w == LocalW(bit_size)
        a == Field(src[1][i], w)
        b == Field(src[2][i], w)
        c == Field(src[3][i], w)
    IN  /\ (op = "iadd" /\ bit_size # 1) => dst[i] = SetField(dst_in[i], BvAdd(a, b))
        /\ (op = "iadd" /\ bit_size = 1) =>
              dst[i] = SetField(dst_in[i], <<(a[1] + b[1]) % 2>>)
        /\ (op = "ieq" /\ bit_size # 1) =>
              dst[i] = SetField(dst_in[i], <<IF a = b THEN 1 ELSE 0>>)
        /\ op = "bcsel" =>
              dst[i] = SetField(dst_in[i], IF src[1][i][1] # 0 THEN b ELSE c)
        /\ (op = "bfi" /\ BvIsZero(Field(src[1][i], 4))) =>
              dst[i] = SetField(dst_in[i], Field(src[3][i], 4))

C18_dispatcher_forwards ==
    /\ [][\A o \in nir_op \cup {"nir_num_opcodes", "nir_num_opcodes + 1"} :
            nir_eval_const_opcode(o) =>
               /\ UNCHANGED <<bit_size, num_components, src, dst_in>>
               /\ o \in nir_op =>
                     /\ op' = o
                     /\ outcome' # "fatal: shouldn't get here"
                     /\ \A i \in Lanes : seen'[i] # <<>> => dst'[i] # dst[i] \/ outcome' # "ok"
               /\ o \notin nir_op =>
                     /\ outcome' = "fatal: shouldn't get here"
                     /\ dst' = dst]_vars
    /\ [](outcome = "fatal: shouldn't get here" => op = "none" /\ dst = dst_in)
    /\ []((pc = "done" /\ op = "none") => outcome = "fatal: shouldn't get here")

\* the dispatcher was called with a value outside the enumeration and ended
\* in its default, the destination as it was
C18_witness ==
    /\ pc = "done"
    /\ op = "none"
    /\ outcome = "fatal: shouldn't get here"
    /\ dst = dst_in
    /\ num_components = 4

\* the opcodes of SpecDispatch whose evaluators switch on the bit width
SwitchingOps ==
    nir_op \ ({"ubitfield_extract", "bitfield_insert", "bfi"}
                 \cup {fam \o n : fam \in {"fall_equal", "fany_nequal"}, n \in {"2", "3", "4"}})

\* the opcodes of SpecDispatch that read floats or fold to a float
FloatOps ==
    {"f2i1", "f2u1", "fddx", "fddx_coarse", "fddx_fine", "fddy", "fddy_coarse", "fddy_fine"}
        \cup {pre \o fam \o n : pre \in {"b", "b32"}, fam \in {"all_fequal", "any_fnequal"},
                                n \in {"2", "3", "4"}}
        \cup {"f" \o c[2] \o (IF c[3] THEN "32" ELSE "") : c \in CompareOps}
        \cup {"fnoise" \o n \o "_" \o m : n \in {"1", "2", "3", "4"},
                                          m \in {"1", "2", "3", "4"}}

\* a call of a switching evaluator ends fatally, nothing written, at a width
\* outside the set widths, and in a case of the switch at a width inside
WidthsHandled(widths) ==
    IF bit_size \in widths
    THEN /\ outcome \in {"ok", "SIGFPE"}
         /\ outcome = "ok" => dst[1] # dst_in[1]
    ELSE /\ outcome = "fatal: unknown bit width"
         /\ dst = dst_in

\* C19 as stated: widths {1, 8, 16, 32, 64} for the integer and boolean
\* opcodes and {16, 32, 64} for the float opcodes; outside them the call is
\* fatal and writes nothing, inside them a case handles it.
C19_widths_of_two_sets ==
    (pc = "done" /\ op \in SwitchingOps) =>
        WidthsHandled(IF op \in FloatOps THEN {16, 32, 64} ELSE {1, 8, 16, 32, 64})

\* C19: an evaluator that switches on the bit width supports {1, 32} if its
\* source is a boolean (b2i1), {16, 32, 64} if it is a float opcode and
\* {1, 8, 16, 32, 64} otherwise; outside its set the call ends in the fatal
\* 'unknown bit width' with no destination lane written, and inside it one
\* case handles the call.
C19_widths_by_source_type ==
    (pc = "done" /\ op \in SwitchingOps) =>
        WidthsHandled(IF op = "b2i1" THEN {1, 32}
                      ELSE IF op \in FloatOps THEN {16, 32, 64}
                      ELSE {1, 8, 16, 32, 64})

\* iadd was called with bit width 24 and ended fatally with nothing written
C19_witness ==
    /\ pc = "done"
    /\ op = "iadd"
    /\ bit_size = 24
    /\ outcome = "fatal: unknown bit width"
    /\ dst = dst_in

\* the derivative and noise opcodes
ConstantOps ==
    {"fddx", "fddx_coarse", "fddx_fine", "fddy", "fddy_coarse", "fddy_fine"}
        \cup {"fnoise" \o n \o "_" \o m : n \in {"1", "2", "3", "4"},
                                          m \in {"1", "2", "3", "4"}}

\* C20: a derivative (fddx, fddx_coarse, fddx_fine, fddy, fddy_coarse,
\* fddy_fine) or noise (fnoise1_1 .. fnoise4_4) opcode at 16, 32 or 64 bits
\* returns, and every destination lane it wrote holds the encoding of zero
\* of that width, whatever the sources.
C20_folds_to_zero ==
    (pc = "done" /\ op \in ConstantOps /\ bit_size \in {16, 32, 64}) =>
        /\ outcome = "ok"
        /\ dst[1] # dst_in[1]
        /\ \A i \in Lanes :
              dst[i] # dst_in[i] => dst[i] = SetField(dst_in[i], Zeros(bit_size \div 8))

\* fnoise2_1 has returned at 16 bits with nonzero sources: lanes 0 and 1
\* hold a zero half, lanes 2 and 3 are as before
C20_witness ==
    /\ Returned("fnoise2_1")
    /\ bit_size = 16
    /\ ~BvIsZero(src[1][1])
    /\ Field(dst[1], 2) = <<0, 0>>
    /\ Field(dst[2], 2) = <<0, 0>>
    /\ dst[2] # dst_in[2]
    /\ dst[3] = dst_in[3]

ExactProduct(a, b, signed) ==
    LET na == signed /\ SignBit(a) = 1
        nb == signed /\ SignBit(b) = 1
        p  == BvMul(IF na THEN BvNeg(a) ELSE a, IF nb THEN BvNeg(b) ELSE b)
    IN  IF na # nb THEN BvNeg(p) ELSE p

\* C22: at the bit widths 8, 16, 32 and 64 imul_high writes the upper W bits
\* of the exact 2W-bit signed product and umul_high those of the unsigned
\* product; imul_2x32_64 and umul_2x32_64 write the exact 64-bit product of
\* their 32-bit operands.
C22_products_exact ==
    \A signed \in BOOLEAN :
        /\ (Returned(IF signed THEN "imul_high" ELSE "umul_high") /\ bit_size # 1) =>
              \A i \in 1..num_components :
                  Result(i, bit_size) =
                      SubSeq(ExactProduct(Operand(1, i, bit_size), Operand(2, i, bit_size),
                                          signed),
                             LocalW(bit_size) + 1, 2 * LocalW(bit_size))
        /\ Returned(IF signed THEN "imul_2x32_64" ELSE "umul_2x32_64") =>
              \A i \in 1..num_components :
                  Field(dst[i], 8) =
                      ExactProduct(Field(src[1][i], 4), Field(src[2][i], 4), signed)

\* imul_high at bit width 64 on INT64_MIN and 10 has stored -5
C22_witness ==
    /\ Returned("imul_high")
    /\ bit_size = 64
    /\ \E i \in 1..num_components :
          /\ Operand(1, i, 64) = BvMinS(8)
          /\ Operand(2, i, 64) = FromNat(8, 10)
          /\ Result(i, 64) = BvNeg(FromNat(8, 5))

\* C27: at the bit widths 8, 16, 32 and 64 uadd_carry writes 1 when a + b
\* exceeds 2^W - 1 and 0 otherwise; usub_borrow writes 1 when a < b and 0
\* otherwise.
C27_carry_and_borrow ==
    /\ (Returned("uadd_carry") /\ bit_size # 1) =>
          \A i \in 1..num_components :
              LET a == Operand(1, i, bit_size)
                  b == Operand(2, i, bit_size)
              IN  Result(i, bit_size) =
                      FromNat(Len(a), IF BvLtU(BvAdd(a, b), a) THEN 1 ELSE 0)
    /\ (Returned("usub_borrow") /\ bit_size # 1) =>
          \A i \in 1..num_components :
              LET a == Operand(1, i, bit_size)
                  b == Operand(2, i, bit_size)
              IN  Result(i, bit_size) = FromNat(Len(a), IF BvLtU(a, b) THEN 1 ELSE 0)

\* floor((a + b + r) / 2) of the fields a and b read as signed or unsigned
\* numbers: the sum in one byte more, halved with its sign kept
HalfSum(a, b, signed, r) ==
    LET n   == Len(a) + 1
        ext(x) == IF signed THEN SExt(x, n) ELSE ZExt(x, n)
        sum == BvAdd(BvAdd(ext(a), ext(b)), FromNat(n, r))
    IN  SubSeq(FromBits(n, [k \in 0..(8 * n - 1) |->
                               IF k + 1 < 8 * n THEN Bit(sum, k + 1) ELSE SignBit(sum)]),
               1, Len(a))

\* C28: uhadd and ihadd write floor((a + b) / 2), urhadd and irhadd write
\* floor((a + b + 1) / 2), each the exact value with no overflow in between.
C28_halving_adds ==
    \A signed \in BOOLEAN, rounding \in BOOLEAN :
        (/\ Returned(IF signed THEN (IF rounding THEN "irhadd" ELSE "ihadd")
                     ELSE (IF rounding THEN "urhadd" ELSE "uhadd"))
         /\ bit_size # 1) =>
            \A i \in 1..num_components :
                Result(i, bit_size) =
                    HalfSum(Operand(1, i, bit_size), Operand(2, i, bit_size), signed,
                            IF rounding THEN 1 ELSE 0)

\* C29: isub_sat writes a - b clamped to the signed range of the width,
\* usub_sat writes max(a - b, 0); neither writes a wrapped difference.
C29_saturating_subtractions ==
    /\ (Returned("isub_sat") /\ bit_size # 1) =>
          \A i \in 1..num_components :
              LET a == Operand(1, i, bit_size)
                  b == Operand(2, i, bit_size)
              IN  Result(i, bit_size) =
                      IF SignBit(a) # SignBit(b) /\ SignBit(BvSub(a, b)) # SignBit(a)
                      THEN (IF SignBit(a) = 1 THEN BvMinS(Len(a)) ELSE BvMaxS(Len(a)))
                      ELSE BvSub(a, b)
    /\ (Returned("usub_sat") /\ bit_size # 1) =>
          \A i \in 1..num_components :
              LET a == Operand(1, i, bit_size)
                  b == Operand(2, i, bit_size)
              IN  Result(i, bit_size) = IF BvLtU(a, b) THEN Zeros(Len(a)) ELSE BvSub(a, b)


\* C25: for bits > 0, offset >= 0 and offset + bits <= 32, ibitfield_extract
\* returns bits [offset, offset + bits) of base sign-extended from bit
\* bits - 1 of the field; it returns 0 when bits = 0, and 0 when offset < 0,
\* bits < 0 or offset + bits > 32.
C25_ibitfield_extract ==
    (pc = "done" /\ op = "ibitfield_extract") =>
        /\ outcome = "ok"
        /\ \A i \in 1..num_components :
              LET base   == Field(src[1][i], 4)
                  offset == ToInt32(Field(src[2][i], 4))
                  bits   == ToInt32(Field(src[3][i], 4))
              IN  Field(dst[i], 4) =
                     IF bits = 0 THEN Zeros(4)
                     ELSE IF offset < 0 \/ bits < 0 \/ offset > 32 - bits THEN Zeros(4)
                     ELSE FromBits(4, [k \in 0..31 |->
                                          IF k < bits THEN Bit(base, k + offset)
                                          ELSE Bit(base, offset + bits - 1)])


\* C26: the integer split and join evaluators are exact inverses:
\* unpack_64_4x16 after pack_64_4x16 of (x, y, z, w) writes x, y, z, w to
\* lanes 0..3, lane 3 being bits 48..63 of the packed value; likewise
\* unpack_64_2x32 after pack_64_2x32 and unpack_32_2x16 after pack_32_2x16.
C26_split_inverts_join ==
    \A fmt \in {"64_4x16", "64_2x32", "32_2x16"} :
        (Returned("unpack_" \o fmt) /\ prev.op = "pack_" \o fmt) =>
            LET n == IF fmt = "64_4x16" THEN 4 ELSE 2
                w == IF fmt = "64_2x32" THEN 4 ELSE 2
            IN  \A k \in 1..n : Field(dst[k], w) = Field(prev.src[1][k], w)


\* the greatest number of iterations of the inner loop of a threaded call
\* for one lane: 31 shifts in bfi, the 32 bits in ifind_msb, bit_size bits in
\* bit_count
TripBound(c) ==
    IF c.op = "bfi" THEN 31 ELSE IF c.op = "ifind_msb" THEN 32 ELSE c.bit_size

\* C23: every call of an evaluator terminates: the trip count of each loop
\* is bounded by the bit width, at most 64 for a lane; the mask-scanning loop
\* of bfi makes at most 31 shifts for a nonzero mask and is skipped for the
\* mask 0.
C23_calls_terminate ==
    /\ [](\A t \in 1..Len(thr) :
             /\ thr[t].trips <= TripBound(thr[t])
             /\ thr[t].trips <= 64
             /\ thr[t].i <= thr[t].num_components
             /\ (thr[t].op = "bfi" /\ thr[t].pc = "store" /\ BvIsZero(thr[t].regs[1])) =>
                    thr[t].trips = 0)
    /\ <>(thr # <<>> /\ \A t \in 1..Len(thr) : thr[t].pc = "done")

\* bfi has made 31 shifts for the mask 0x80000000 and left its loop
C23_witness ==
    \E t \in 1..Len(thr) :
        /\ thr[t].op = "bfi"
        /\ thr[t].pc = "store"
        /\ thr[t].regs[1] = BvMinS(4)
        /\ thr[t].trips = 31

\* what a call of the evaluator alone stores for a lane with the sources s
Alone(o, bs, s) ==
    IF o = "bfi"
    THEN (IF BvIsZero(s[1]) THEN s[3]
          ELSE LET z == CHOOSE k \in 0..31 :
                            Bit(s[1], k) = 1 /\ \A q \in 0..(k - 1) : Bit(s[1], q) = 0
               IN  FromBits(4, [k \in 0..31 |->
                                   IF Bit(s[1], k) = 0 THEN Bit(s[3], k)
                                   ELSE IF k >= z THEN Bit(s[2], k - z) ELSE 0]))
    ELSE IF o = "ifind_msb"
    THEN LET differ == {k \in 0..31 : Bit(s[1], k) # SignBit(s[1])}
         IN  IF differ = {} THEN Ones(4)
             ELSE FromNat(4, CHOOSE k \in differ : \A q \in differ : q <= k)
    ELSE FromNat(4, Cardinality({k \in 0..(bs - 1) : Bit(s[1], k) = 1}))

\* the lanes of the source vectors and of the destination vector of a call
SourceLanes(c) ==
    {c.src[j] + i : j \in 1..(IF c.op = "bfi" THEN 3 ELSE 1), i \in 0..(c.num_components - 1)}

DestLanes(c) == {c.dst + i : i \in 0..(c.num_components - 1)}

\* C24: calls that run concurrently on pairwise disjoint source and
\* destination storage: under every interleaving of their lane reads and
\* writes each call writes exactly the lanes it would write alone, with the
\* result it would write alone, and no call reads or writes outside the
\* storage its parameters name.
C24_disjoint_calls_independent ==
    /\ [][\A t \in 1..Len(thr) : \A a \in SourceLanes(thr[t]) : heap'[a] = heap[a]]_vars
    /\ [](\A t \in 1..Len(thr) :
             LET c == thr[t]
                 w == IF c.op = "bit_count" THEN LocalW(c.bit_size) ELSE 4
             IN  /\ c.rd \subseteq SourceLanes(c)
                 /\ c.wr = {c.dst + i : i \in 0..(c.i - 1)}
                 /\ c.pc = "done" => c.wr = DestLanes(c)
                 /\ \A u \in 1..Len(thr) :
                       u # t => (c.rd \cup c.wr) \cap (thr[u].rd \cup thr[u].wr) = {}
                 /\ \A i \in 0..(c.num_components - 1) :
                       heap[c.dst + i] =
                          IF i < c.i
                          THEN Alone(c.op, c.bit_size,
                                     [j \in 1..3 |-> Field(heap[c.src[j] + i], w)])
                               \o Tup([k \in 1..4 |-> 170], 4)
                          ELSE Tup([k \in 1..LaneBytes |-> 170], LaneBytes))

\* both calls are in their inner loop for their second lane, each having
\* stored its first lane
C24_witness ==
    /\ thr # <<>>
    /\ \A t \in 1..2 :
          /\ thr[t].pc = "loop"
          /\ thr[t].i = 1
          /\ thr[t].wr = {thr[t].dst}
          /\ heap[thr[t].dst] # Tup([k \in 1..LaneBytes |-> 170], LaneBytes)
    /\ thr[1].op # thr[2].op


\* an instruction of the shader as it was before the pass
Original(instr) == instr.id # 0

\* the store writes an output whose variable is a colour output of a render
\* target with a format that is neither float nor sRGB
Lowered(c, instr) ==
    /\ instr.type = "intrinsic"
    /\ instr.intrinsic = "store_output"
    /\ \E v \in 1..Len(c.outputs) :
          /\ c.outputs[v].driver_location = instr.base
          /\ c.outputs[v].location \in {2} \cup (4..7)
          /\ c.fs_key.color_fmt[c.outputs[v].driver_location + 1].format
                \notin {"R16G16B16A16_FLOAT", "R8G8B8A8_SRGB"}

\* C30: v3d_nir_lower_logic_ops leaves the shader as it is for
\* PIPE_LOGICOP_COPY; for any other logic op the instructions of the shader
\* stay in their order, a store_output has its source (and the component
\* count of the new source) rewritten only if its variable has location
\* FRAG_RESULT_COLOR or FRAG_RESULT_DATA0..DATA0+3 and the format of its
\* render target is neither float nor sRGB, and every other instruction is
\* unchanged; for a logic op outside the enumeration the new source is the
\* one built with v3d_logicop returning src, as it does for COPY.
C30_logic_ops_frame ==
    (v3d_compile # <<>> /\ v3d_compile.done) =>
        LET c    == v3d_compile
            kept == SelectSeq(c.s, Original)
        IN  /\ c.fs_key.logicop_func = 12 => c.s = c.s_in
            /\ Len(kept) = Len(c.s_in)
            /\ \A k \in 1..Len(c.s_in) :
                  IF c.fs_key.logicop_func # 12 /\ Lowered(c, c.s_in[k])
                  THEN /\ kept[k] = [c.s_in[k] EXCEPT
                                        !.src = kept[k].src,
                                        !.num_components = kept[k].num_components]
                       /\ kept[k].src # c.s_in[k].src
                       /\ c.fs_key.logicop_func \notin 0..15 =>
                             kept[k].src =
                                v3d_nir_emit_logic_op(
                                    [c.fs_key EXCEPT !.logicop_func = 12],
                                    c.s_in[k].src, c.s_in[k].base)
                  ELSE kept[k] = c.s_in[k]

\* the pass has run with a logic op outside the enumeration on a shader
\* with a store to a UNORM colour output, which it rewrote, and another
\* instruction, which it kept
C30_witness ==
    /\ v3d_compile # <<>>
    /\ v3d_compile.done
    /\ v3d_compile.fs_key.logicop_func = 16
    /\ Len(v3d_compile.s) = 7
    /\ Lowered(v3d_compile, v3d_compile.s_in[1])
    /\ v3d_compile.s_in[2].type = "alu"
    /\ v3d_compile.s[7] = v3d_compile.s_in[2]
    /\ v3d_compile.s[6].src # v3d_compile.s_in[1].src

=============================================================================
